---- MODULE Spec2Model ----
(***************************************************************************)
(* J_Circuit: the DC analysis core of server/src/JCircuitServer.jl         *)
(* (run_simulation, solve_by_node_voltage, compute_thevenin_equivalent,    *)
(* solve_by_branch_current, solve_by_mesh_current) as a state machine.     *)
(*                                                                         *)
(* One behaviour is one request: Init picks the payload, the actions are   *)
(* the steps run_simulation takes on it, the last one builds the envelope. *)
(*                                                                         *)
(* Numbers.  The server computes in Float64.  The model computes in exact  *)
(* rational arithmetic: a number is a quotient of two finite expansions to *)
(* base 1000 with balanced digits, so that the constants of the server     *)
(* (the 1e-12 ridge, perturbation and short-circuit threshold, the 1e-6    *)
(* Ohm short, the 1e12 Ohm sentinel) and the sums and products the solver  *)
(* forms of them with component values are all represented exactly and no  *)
(* digit leaves the range of a machine integer.  Rounding of Float64 is    *)
(* not modelled; 1.0 / 0.0 (a resistor of 0 Ohm) is outside the number     *)
(* domain and no payload of the model has one.                             *)
(***************************************************************************)
EXTENDS Integers, Sequences, FiniteSets, Bags, TLC

----------------------------------------------------------------------------
(* Integers *)

Max(a, b) == IF a >= b THEN a ELSE b
Min(a, b) == IF a <= b THEN a ELSE b
AbsI(a) == IF a < 0 THEN -a ELSE a

RECURSIVE Gcd(_, _)
Gcd(a, b) == IF b = 0 THEN a ELSE Gcd(b, a % b)

----------------------------------------------------------------------------
(* Expansions: [e |-> k, c |-> digits] is the real                         *)
(*     c[1] * Base^(-k) + c[2] * Base^(-k-1) + ...                         *)
(* with every digit in -499..500 and neither a leading nor a trailing 0;   *)
(* the expansion of a real is unique, [e |-> 0, c |-> << >>] is 0, and the *)
(* sign of a real is the sign of its first digit.                          *)

Base == 1000

PZero == [e |-> 0, c |-> << >>]
POne == [e |-> 0, c |-> <<1>>]

Balanced(m) == IF 2 * m > Base THEN m - Base ELSE m
BalDigit(v) == Balanced(v % Base)
BalQuot(v) == (v - BalDigit(v)) \div Base

\* carries run from the last digit to the first and on into new leading digits
RECURSIVE Carry(_, _, _, _, _)
Carry(c, k, cin, acc, pre) ==
    IF k = 0
    THEN IF cin = 0 THEN [c |-> acc, pre |-> pre]
         ELSE Carry(c, 0, BalQuot(cin), <<BalDigit(cin)>> \o acc, pre + 1)
    ELSE Carry(c, k - 1, BalQuot(c[k] + cin), <<BalDigit(c[k] + cin)>> \o acc, pre)

RECURSIVE LeadZeros(_, _)
LeadZeros(c, i) == IF i > Len(c) THEN Len(c) ELSE IF c[i] # 0 THEN i - 1 ELSE LeadZeros(c, i + 1)

RECURSIVE TrailZeros(_, _)
TrailZeros(c, i) == IF i < 1 THEN Len(c) ELSE IF c[i] # 0 THEN Len(c) - i ELSE TrailZeros(c, i - 1)

Trimmed(e, c, pre, lz, tz) ==
    IF lz = Len(c) THEN PZero
    ELSE [e |-> e - pre + lz, c |-> SubSeq(c, lz + 1, Len(c) - tz)]
Trim(e, r) == Trimmed(e, r.c, r.pre, LeadZeros(r.c, 1), TrailZeros(r.c, Len(r.c)))
\* the expansion of the real with exponent e and unnormalised digits c0
PCanon(e, c0) == Trim(e, Carry(c0, Len(c0), 0, << >>, 0))

\* the digit of p at Base^(-j)
Dig(p, j) == IF j - p.e + 1 \in 1..Len(p.c) THEN p.c[j - p.e + 1] ELSE 0
PTop(p) == p.e + Len(p.c) - 1

PInt(k) == PCanon(0, <<k>>)
\* Base^(-k)
TPow(k) == [e |-> k, c |-> <<1>>]

PAddFrom(p, q, lo, hi) ==
    PCanon(lo, [i \in 1..(hi - lo + 1) |-> Dig(p, lo + i - 1) + Dig(q, lo + i - 1)])
PAdd(p, q) ==
    IF p.c = << >> THEN q ELSE IF q.c = << >> THEN p
    ELSE PAddFrom(p, q, Min(p.e, q.e), Max(PTop(p), PTop(q)))
PNeg(p) == [e |-> p.e, c |-> [i \in 1..Len(p.c) |-> 0 - p.c[i]]]

RECURSIVE ConvSum(_, _, _, _)
ConvSum(c, d, k, i) ==
    IF i > Len(c) THEN 0
    ELSE (IF k - i + 1 \in 1..Len(d) THEN c[i] * d[k - i + 1] ELSE 0) + ConvSum(c, d, k, i + 1)

PMul(p, q) ==
    IF p.c = << >> \/ q.c = << >> THEN PZero
    ELSE PCanon(p.e + q.e, [k \in 1..(Len(p.c) + Len(q.c) - 1) |-> ConvSum(p.c, q.c, k, 1)])

PSign(p) == IF p.c = << >> THEN 0 ELSE IF p.c[1] > 0 THEN 1 ELSE -1
\* p if s >= 0, -p if s < 0
PFlip(p, s) == IF s < 0 THEN PNeg(p) ELSE p

RECURSIVE PContentFrom(_, _)
PContentFrom(c, i) ==
    IF i > Len(c) THEN 0 ELSE Gcd(AbsI(c[i]), PContentFrom(c, i + 1))
PContent(p) == PContentFrom(p.c, 1)

\* p / g for an integer g that divides every digit of p
PDivInt(p, g) == PCanon(p.e, [i \in 1..Len(p.c) |-> p.c[i] \div g])
PShift(p, k) == IF p.c = << >> THEN p ELSE [e |-> p.e + k, c |-> p.c]

----------------------------------------------------------------------------
(* Numbers: [n |-> expansion, d |-> expansion > 0], the real n / d, kept   *)
(* with d.e = 0 and no integer factor common to all digits of n and d.     *)

Zero == [n |-> [e |-> 0, c |-> << >>], d |-> [e |-> 0, c |-> <<1>>]]
One == [n |-> [e |-> 0, c |-> <<1>>], d |-> [e |-> 0, c |-> <<1>>]]

\* the digits c read as an integer, modulo k
RECURSIVE ModDigits(_, _, _, _)
ModDigits(c, k, i, r) ==
    IF i > Len(c) THEN r ELSE ModDigits(c, k, i + 1, (r * Base + c[i]) % k)

\* p / g for a positive integer g that divides the digits of p read as an
\* integer: long division from the first digit
RECURSIVE LongDivFrom(_, _, _, _, _)
LongDivFrom(c, g, i, r, acc) ==
    IF i > Len(c) THEN acc
    ELSE LongDivFrom(c, g, i + 1, (r * Base + c[i]) % g,
                     Append(acc, (r * Base + c[i]) \div g))
PLongDiv(p, g) == PCanon(p.e, LongDivFrom(p.c, g, 1, 0, << >>))

\* n / k with the factors 2 and 5 of k moved into n  (1/2 = 500/Base)
RECURSIVE StripTwoFive(_, _)
StripTwoFive(n, k) ==
    IF k % 2 = 0 THEN StripTwoFive(PMul(n, [e |-> 1, c |-> <<Base \div 2>>]), k \div 2)
    ELSE IF k % 5 = 0 THEN StripTwoFive(PMul(n, [e |-> 1, c |-> <<Base \div 5>>]), k \div 5)
    ELSE [n |-> n, k |-> k]

\* n / k1 with the denominator brought to exponent 0
Quotient(n, k1) == [n |-> PShift(n, 0 - k1.e), d |-> PShift(k1, 0 - k1.e)]
Reduced(n, k, g) == Quotient(PLongDiv(n, g), PInt(k \div g))
Lowest(st) == Reduced(st.n, st.k, Gcd(st.k, ModDigits(st.n.c, st.k, 1, 0)))
\* n / d for d > 0 with at most two digits: in lowest terms
NormSmall(n, d) ==
    Lowest(StripTwoFive(PShift(n, 0 - (d.e + Len(d.c) - 1)),
                        IF Len(d.c) = 1 THEN d.c[1] ELSE d.c[1] * Base + d.c[2]))

NormBig(n, d, g) ==
    [n |-> PShift(PDivInt(n, g), 0 - d.e), d |-> PShift(PDivInt(d, g), 0 - d.e)]
NormPos(n, d) ==
    IF Len(d.c) <= 2 THEN NormSmall(n, d)
    ELSE NormBig(n, d, Gcd(PContent(n), PContent(d)))
\* the number n / d for expansions n and d # 0
Norm(n, d) ==
    IF n.c = << >> THEN Zero
    ELSE IF n.c = d.c THEN [n |-> TPow(n.e - d.e), d |-> POne]
    ELSE NormPos(PFlip(n, PSign(d)), PFlip(d, PSign(d)))

FromInt(k) == Norm(PInt(k), POne)
Frac(a, b) == Norm(PInt(a), PInt(b))
\* 10^(-3k)
Milli(k) == [n |-> TPow(k), d |-> POne]

NAdd(a, b) ==
    IF a.d = b.d THEN Norm(PAdd(a.n, b.n), a.d)
    ELSE Norm(PAdd(PMul(a.n, b.d), PMul(b.n, a.d)), PMul(a.d, b.d))

NNeg(a) == [n |-> PNeg(a.n), d |-> a.d]
NSub(a, b) == NAdd(a, NNeg(b))
NProduct(u, v) == Norm(PMul(u.n, v.n), PMul(u.d, v.d))
NMul(a, b) ==
    IF a.n.c = << >> \/ b.n.c = << >> THEN Zero
    ELSE NProduct(Norm(a.n, b.d), Norm(b.n, a.d))
NInv(a) == Norm(a.d, a.n)
NDiv(a, b) == NMul(a, NInv(b))

NSign(a) == PSign(a.n)
NIsZero(a) == a.n.c = << >>
NEq(a, b) == PMul(a.n, b.d) = PMul(b.n, a.d)
NLess(a, b) == PSign(PAdd(PMul(a.n, b.d), PNeg(PMul(b.n, a.d)))) < 0
NLeq(a, b) == PSign(PAdd(PMul(a.n, b.d), PNeg(PMul(b.n, a.d)))) <= 0
NAbs(a) == [n |-> PFlip(a.n, PSign(a.n)), d |-> a.d]

----------------------------------------------------------------------------
(* Linear algebra over the numbers.  A matrix is a sequence of rows, a row *)
(* a sequence of numbers.                                                  *)

Dim(b) == Len(b)

RECURSIVE PProdSet(_)
PProdSet(S) ==
    IF S = {} THEN POne
    ELSE PMul(CHOOSE p \in S : TRUE, PProdSet(S \ {CHOOSE p \in S : TRUE}))

\* Row i of A x = b multiplied by the denominators of its entries: the
\* same equation with expansions for coefficients; entry N + 1 is the
\* right hand side.
RowDens(A, b, i) == {A[i][j].d : j \in 1..Dim(b)} \cup {b[i].d}

Scaled(a, dens) == PMul(a.n, PProdSet(dens \ {a.d}))

ScaledRow(A, b, i) ==
    [j \in 1..(Dim(b) + 1) |->
        Scaled(IF j <= Dim(b) THEN A[i][j] ELSE b[i], RowDens(A, b, i))]

ScaledSystem(A, b) == [i \in 1..Dim(b) |-> ScaledRow(A, b, i)]

RemoveAt(s, j) == SubSeq(s, 1, j - 1) \o SubSeq(s, j + 1, Len(s))

\* Determinant of the square matrix M of expansions restricted to the given
\* rows and columns, by expansion along the first remaining row.
RECURSIVE DetP(_, _, _)
RECURSIVE DetRow(_, _, _, _)
DetP(M, rows, cols) ==
    IF rows = << >> THEN POne ELSE DetRow(M, rows, cols, 1)
DetRow(M, rows, cols, j) ==
    IF j > Len(cols) THEN PZero
    ELSE PAdd(IF M[Head(rows)][cols[j]].c = << >> THEN PZero
              ELSE PMul(IF j % 2 = 1 THEN M[Head(rows)][cols[j]]
                        ELSE PNeg(M[Head(rows)][cols[j]]),
                        DetP(M, Tail(rows), RemoveAt(cols, j))),
              DetRow(M, rows, cols, j + 1))

Iota(N) == [i \in 1..N |-> i]

ReplaceColumn(M, N, i) ==
    [r \in 1..N |-> [c \in 1..N |-> IF c = i THEN M[r][N + 1] ELSE M[r][c]]]

\* Cramer's rule on the scaled system M with determinant D.
Cramer(M, N, D) ==
    IF D.c = << >>
    THEN [singular |-> TRUE, x |-> << >>]
    ELSE [singular |-> FALSE,
          x |-> [i \in 1..N |-> Norm(DetP(ReplaceColumn(M, N, i), Iota(N), Iota(N)), D)]]

SolveScaled(M, N) == Cramer(M, N, DetP(M, Iota(N), Iota(N)))

\* A \ b of LinearAlgebra for a square A: the unique solution, or the
\* report that A is singular (SingularException).
LeftDivide(A, b) == SolveScaled(ScaledSystem(A, b), Dim(b))

RECURSIVE NSumSeq(_, _)
NSumSeq(s, i) == IF i > Len(s) THEN Zero ELSE NAdd(s[i], NSumSeq(s, i + 1))

MatVec(A, v) == [i \in 1..Len(A) |-> NSumSeq([j \in 1..Len(v) |-> NMul(A[i][j], v[j])], 1)]
MatMul(A, B) ==
    [i \in 1..Len(A) |-> [j \in 1..Len(A) |->
        NSumSeq([k \in 1..Len(A) |-> NMul(A[i][k], B[k][j])], 1)]]
Transpose(A) == [i \in 1..Len(A) |-> [j \in 1..Len(A) |-> A[j][i]]]
Identity(N) == [i \in 1..N |-> [j \in 1..N |-> IF i = j THEN One ELSE Zero]]
Trace(A) == NSumSeq([i \in 1..Len(A) |-> A[i][i]], 1)
AddDiag(A, c) ==
    [i \in 1..Len(A) |-> [j \in 1..Len(A) |-> IF i = j THEN NAdd(A[i][j], c) ELSE A[i][j]]]
VecScale(c, v) == [i \in 1..Len(v) |-> NMul(c, v[i])]

\* pinv(A) * b, the least-squares solution of least norm, by the
\* Cayley-Hamilton formula for the Moore-Penrose inverse: with
\* B = A A^T, B_0 = I, a_j = -tr(B B_(j-1)) / j, B_j = B B_(j-1) + a_j I
\* and k the last j with a_j # 0,  pinv(A) = -(1/a_k) A^T B_(k-1)
\* (and 0 when A = 0).  PinvIter yields k, B_(k-1) and a_k.
RECURSIVE PinvIter(_, _, _)
PinvLast(j, Bprev, aj, nxt) ==
    IF nxt.k = j THEN [k |-> j, Bk |-> Bprev, ak |-> aj] ELSE nxt
PinvCoefficient(B, j, Bprev, Aj, aj) ==
    IF j > Len(B) \/ NIsZero(aj)
    THEN [k |-> j - 1, Bk |-> Bprev, ak |-> Zero]
    ELSE PinvLast(j, Bprev, aj, PinvIter(B, j + 1, AddDiag(Aj, aj)))
PinvProduct(B, j, Bprev, Aj) ==
    PinvCoefficient(B, j, Bprev, Aj, NDiv(NNeg(Trace(Aj)), FromInt(j)))
PinvIter(B, j, Bprev) == PinvProduct(B, j, Bprev, MatMul(B, Bprev))

PinvApply(A, b, r) ==
    IF r.k = 0 THEN [i \in 1..Dim(b) |-> Zero]
    ELSE VecScale(NNeg(NInv(r.ak)), MatVec(Transpose(A), MatVec(r.Bk, b)))

PinvSolve(A, b) ==
    IF Dim(b) = 0 THEN << >>
    ELSE PinvApply(A, b, PinvIter(MatMul(A, Transpose(A)), 1, Identity(Dim(b))))

(***************************************************************************)
(* Requests.  A request is a SimulationPayload: components, nets, method   *)
(* sim, method and thevenin_port.  Nets are the ones the editor derives    *)
(* from the connections, so every net a component names is declared, but   *)
(* for net "x", which the nets list of the request leaves out.  R4 comes   *)
(* without its value.                                                      *)
(***************************************************************************)
MaxComps == 3

Comp(id, type, parameters, connections) ==
    [id |-> id, type |-> type, parameters |-> parameters, connections |-> connections]

\* Terminal handles of each component type, in schema order.
COMPONENT_SCHEMAS ==
    [resistor   |-> <<"p", "n">>,
     capacitor  |-> <<"p", "n">>,
     vsource_dc |-> <<"pos", "neg">>,
     isource_dc |-> <<"pos", "neg">>,
     vcvs       |-> <<"pos", "neg", "ctrl_p", "ctrl_n">>,
     vccs       |-> <<"pos", "neg", "ctrl_p", "ctrl_n">>,
     ccvs       |-> <<"pos", "neg", "ctrl_p", "ctrl_n">>,
     cccs       |-> <<"pos", "neg", "ctrl_p", "ctrl_n">>,
     ground     |-> <<"gnd">>,
     inductor   |-> <<"p", "n">>,
     vsource_ac |-> <<"pos", "neg">>,
     isource_ac |-> <<"pos", "neg">>,
     voltage_probe |-> <<"node">>,
     current_probe |-> <<"p", "n">>]

\* Required parameters of each component type.
SchemaParams ==
    [resistor   |-> <<"value">>,
     capacitor  |-> <<"value">>,
     vsource_dc |-> <<"dc">>,
     isource_dc |-> <<"dc">>,
     vcvs       |-> <<"gain">>,
     vccs       |-> <<"gain">>,
     ccvs       |-> <<"gain">>,
     cccs       |-> <<"gain">>,
     ground     |-> << >>,
     inductor   |-> <<"value">>,
     vsource_ac |-> <<"amplitude", "frequency">>,
     isource_ac |-> <<"amplitude", "frequency">>,
     voltage_probe |-> << >>,
     current_probe |-> << >>]

\* The parameters of its schema a component lacks, in schema order.
MissingParams(c) ==
    SelectSeq(SchemaParams[c.type], LAMBDA k : k \notin DOMAIN c.parameters)

HasAllParams(c) == MissingParams(c) = << >>

Two(p, q) == [p |-> p, n |-> q]
Src(p, q) == [pos |-> p, neg |-> q]
Ctl(p, q, cp, cn) == [pos |-> p, neg |-> q, ctrl_p |-> cp, ctrl_n |-> cn]

\* The parts requests are assembled from.  "G" stands for the ground net,
\* whose name the request chooses.  V1, R1, R2, GND1 form the 9 V divider.
\* R4 lacks its parameter; R5 ends on the undeclared net "x".
Catalogue ==
    << Comp("V1", "vsource_dc", [dc |-> FromInt(9)], Src("a", "G")),
       Comp("R1", "resistor", [value |-> FromInt(3000)], Two("a", "n1")),
       Comp("R2", "resistor", [value |-> FromInt(6000)], Two("n1", "G")),
       Comp("GND1", "ground", [x \in {} |-> Zero], [gnd |-> "G"]),
       Comp("GND2", "ground", [x \in {} |-> Zero], [gnd |-> "n1"]),
       Comp("I1", "isource_dc", [dc |-> Frac(1, 500)], Src("G", "n1")),
       Comp("R3", "resistor", [value |-> FromInt(2)], Two("n2", "n2")),
       Comp("RX", "resistor", [value |-> NNeg(NInv(Milli(4)))], Two("n1", "G")),
       Comp("G1", "vccs", [gain |-> Frac(1, 1000)], Ctl("n1", "G", "a", "G")),
       Comp("E1", "vcvs", [gain |-> FromInt(2)], Ctl("n2", "G", "n1", "G")),
       Comp("H1", "ccvs", [gain |-> FromInt(1000)], Ctl("n1", "G", "a", "G")),
       Comp("F1", "cccs", [gain |-> FromInt(2)], Ctl("n1", "G", "a", "G")),
       Comp("V2", "vsource_dc", [dc |-> FromInt(9)], Src("a", "G")),
       Comp("C1", "capacitor", [value |-> Milli(2)], Two("n1", "G")),
       Comp("R4", "resistor", [x \in {} |-> Zero], Two("a", "n1")),
       Comp("R5", "resistor", [value |-> FromInt(1000)], Two("n1", "x")) >>

\* A source whose id begins like the ids of the sensing sources.
ReservedParts ==
    << Comp("_sense_ccvs_H1", "vsource_dc", [dc |-> FromInt(9)], Src("a", "G")) >>

\* Net names in the order of Julia's isless on strings.
NetOrder == <<"a", "gnd", "n0", "n1", "n2">>

GroundNames == {"gnd", "n0"}

Rename(conn, g) == [h \in DOMAIN conn |-> IF conn[h] = "G" THEN g ELSE conn[h]]

Pick(cat, idx, g) ==
    [k \in 1..Len(idx) |-> [cat[idx[k]] EXCEPT !.connections = Rename(@, g)]]

\* The components of a request: the chosen catalogue entries, in order.
RequestComponents(S, g) ==
    Pick(Catalogue, SelectSeq([i \in 1..Len(Catalogue) |-> i], LAMBDA i : i \in S), g)

RECURSIVE Terminals(_, _, _, _)
\* "id:handle" members of one net, in component and handle order.
Terminals(comps, name, i, acc) ==
    IF i > Len(comps) THEN acc
    ELSE LET c == comps[i]
             hs == SelectSeq(COMPONENT_SCHEMAS[c.type],
                             LAMBDA h : c.connections[h] = name)
         IN  Terminals(comps, name, i + 1,
                       acc \o [k \in 1..Len(hs) |-> <<c.id, hs[k]>>])

\* buildNets: one net per connected group of terminals.
BuildNets(comps) ==
    LET used == SelectSeq(NetOrder, LAMBDA nm :
                    \E i \in 1..Len(comps) :
                        \E h \in DOMAIN comps[i].connections :
                            comps[i].connections[h] = nm)
    IN  [k \in 1..Len(used) |->
            [name |-> used[k], nodes |-> Terminals(comps, used[k], 1, << >>)]]

\* An absent method or ground name.
Nothing == "nothing"

\* The methods of the DC path.
DcMethods == {"node_voltage", "branch_current", "mesh_current", "thevenin"}

\* thevenin_port: << >> when the request has none, else <<port>>.
ThePorts ==
    { << >>,
      << [positive |-> "n1", negative |-> "gnd"] >>,
      << [positive |-> "a", negative |-> "n1"] >>,
      << [positive |-> "n1"] >> }

\* SimulationSettings: t_stop in seconds and n_samples.
GoodSim == [t_stop |-> Milli(1), n_samples |-> 10]
NoTime == [t_stop |-> Zero, n_samples |-> 10]
OneSample == [t_stop |-> Milli(1), n_samples |-> 1]

Requests ==
    { [method |-> m, thevenin_port |-> << >>, sim |-> GoodSim] :
          m \in {Nothing, "node_voltage", "branch_current", "mesh_current",
                 "transient", "transient_modia", "nodal"} }
    \cup { [method |-> "thevenin", thevenin_port |-> p, sim |-> GoodSim] : p \in ThePorts }
    \cup { [method |-> "transient", thevenin_port |-> << >>, sim |-> st] :
              st \in {NoTime, OneSample} }

\* The sets of catalogue entries a request may be made of.
Selections == {S \in SUBSET (1..Len(Catalogue)) : Cardinality(S) <= MaxComps}

\* The circuit part of a request: the components and the nets built from
\* them.
Circuit(components) == [components |-> components, nets |-> BuildNets(components)]

Circuits == {Circuit(RequestComponents(S, g)) : S \in Selections, g \in GroundNames}

SimulationPayload(circuit, rq) ==
    [components |-> circuit.components, nets |-> circuit.nets,
     sim |-> rq.sim, method |-> rq.method, thevenin_port |-> rq.thevenin_port]

(***************************************************************************)
(* State of one run_simulation call.                                       *)
(***************************************************************************)
VARIABLES
    payload,          \* the request
    pc,               \* position in run_simulation and its callees
    method,           \* the method after auto-detection
    caller,           \* who called solve_by_node_voltage
    comps,            \* payload.components of the current solve
    ground_name,      \* solve_by_node_voltage locals ...
    nodes,
    vsrc_rows,
    A,
    b,
    x,
    stages,           \* solver stages attempted by the current solve
    node_voltages,    \* result of the last completed solve
    branch_currents,
    thevenin,         \* compute_thevenin_equivalent locals
    err,              \* the exception in flight
    response,         \* the envelope returned
    metrics,          \* _METRICS, shared by all requests
    simplify_cache,   \* _SIMPLIFY_CACHE: entries of key and system, shared by all requests
    earlier,          \* what an earlier call with the same request returned
    canvas,           \* the editor's nodes, edges, settings and chosen method
    built,            \* what the editor's last build or load returned
    project           \* the project file last exported or read by the editor

vars == <<payload, pc, method, caller, comps, ground_name, nodes, vsrc_rows,
          A, b, x, stages, node_voltages, branch_currents, thevenin, err, response,
          metrics, simplify_cache, earlier, canvas, built, project>>

EmptyMap == [k \in {} |-> Zero]

\* Dict(): the empty data of an error.
NoData == << >>

NoError == [kind |-> "none", message |-> "", data |-> NoData]

NoResponse == [status |-> "none"]

\* What lies outside one call of the server: the previous call and the editor.
Outside == <<earlier, canvas, built, project>>

\* The editor before anything is drawn or built.
NoCanvas == [nodes |-> << >>, edges |-> << >>]

NotBuilt == [ok |-> FALSE, errors |-> << >>, diagnostics |-> << >>]

\* No project file was exported or read.
NoProject == [nodes |-> << >>, edges |-> << >>]

\* The server's side before a request is looked at.
Idle ==
    /\ method = Nothing
    /\ caller = Nothing
    /\ comps = << >>
    /\ ground_name = Nothing
    /\ nodes = << >>
    /\ vsrc_rows = << >>
    /\ A = << >>
    /\ b = << >>
    /\ x = << >>
    /\ stages = << >>
    /\ node_voltages = EmptyMap
    /\ branch_currents = EmptyMap
    /\ thevenin = [phase |-> "none"]
    /\ err = NoError
    /\ response = NoResponse
    /\ metrics = [simulate_calls |-> 0, simplify_hits |-> 0, simplify_misses |-> 0]
    /\ simplify_cache = {}
    /\ earlier = [run |-> 0]

\* The state run_simulation is entered in.
Fresh ==
    /\ pc = "run_simulation"
    /\ Idle
    /\ canvas = NoCanvas
    /\ built = NotBuilt
    /\ project = NoProject

Init ==
    /\ \E circuit \in Circuits, rq \in Requests :
          payload = SimulationPayload(circuit, rq)
    /\ Fresh

\* Messages of the ValidationErrors (the server's Chinese texts, in English).
MsgNodeOnly     == "node voltage method only applies to purely resistive circuits"
MsgBranchOnly   == "branch current method only applies to purely resistive circuits"
MsgMeshOnly     == "mesh current method only applies to purely resistive circuits"
MsgTheveninOnly == "thevenin equivalent only applies to purely resistive circuits"
MsgNoGroundNode == "earth wire node is missing"
MsgManyGrounds  == "several earth wires connected to different nets"
MsgNeedPort     == "thevenin analysis requires port nodes"
MsgUnsupported  == "unsupported analysis method: "
MsgNoGround     == "circuit has no ground"
MsgNoSource     == "circuit has no source"
MsgEmpty        == "circuit is empty"
MsgNoNets       == "no net connections provided"
MsgFewTerminals == "net has too few terminals"
MsgSolveFailed  == "simulation solve failed"
MsgBadStop      == "simulation time must be greater than 0"
MsgBadSamples   == "at least 2 samples are required"
MsgMissingParam == "missing component parameter "
MsgNoModia      == "Modia is not installed"
MsgModiaLoad    == "loading Modia failed"

\* Messages of the replies with status "ok".
MsgNodeDone      == "node voltage analysis completed"
MsgBranchDone    == "branch current analysis completed"
MsgMeshDone      == "mesh current analysis completed"
MsgTheveninDone  == "thevenin equivalent analysis completed"
MsgTransientDone == "transient analysis completed"
MsgModiaDone     == "transient analysis (Modia) completed"
MsgInternal     == "internal error"

\* occursin(word, message) on the texts of the server: of all its messages
\* only the two English ones of simulate_payload hold an ASCII word of the
\* circuit vocabulary, each the word it names.
occursin(word, message) ==
    \/ word = "ground" /\ message = MsgNoGround
    \/ word = "source" /\ message = MsgNoSource

ValidationError(message, data) ==
    [kind |-> "ValidationError", message |-> message, data |-> data]

\* Exceptions that are no ValidationError carry no message or data the
\* catch block uses.
OtherError(kind) == [kind |-> kind, message |-> "", data |-> NoData]

KeyError == OtherError("KeyError")

\* throw(e): control leaves for the catch block of run_simulation.
Throw(e) ==
    /\ pc' = "catch"
    /\ err' = e

\* resistive_types without the two probe types.
ResistiveTypesNoProbes ==
    {"resistor", "vsource_dc", "isource_dc", "ground", "vcvs", "vccs", "ccvs", "cccs"}

ResistiveTypes ==
    {"resistor", "vsource_dc", "isource_dc", "ground", "voltage_probe",
     "current_probe", "vcvs", "vccs", "ccvs", "cccs"}

is_resistive_circuit(components) ==
    \A i \in 1..Len(components) : components[i].type \in ResistiveTypes

\* Enter solve_by_node_voltage on the given components.
CallSolve(who, components) ==
    /\ pc' = "solve_by_node_voltage"
    /\ caller' = who
    /\ comps' = components
    /\ ground_name' = Nothing
    /\ nodes' = << >>
    /\ vsrc_rows' = << >>
    /\ A' = << >>
    /\ b' = << >>
    /\ x' = << >>
    /\ stages' = << >>

\* The state shared by all requests.
Shared == <<metrics, simplify_cache>>

SolveLocals == <<caller, comps, ground_name, nodes, vsrc_rows, A, b, x, stages>>

Results == <<node_voltages, branch_currents>>

\* run_simulation up to the dispatch on the method.
Route ==
    /\ pc = "run_simulation"
    /\ LET m == IF payload.method = Nothing
                THEN IF is_resistive_circuit(payload.components)
                     THEN "node_voltage" ELSE "transient"
                ELSE payload.method
           port == payload.thevenin_port
       IN  /\ method' = m
           /\ CASE m = "node_voltage" ->
                     /\ CallSolve("node_voltage", payload.components)
                     /\ UNCHANGED <<thevenin, err>>
                [] m = "branch_current" ->
                     /\ pc' = "solve_by_branch_current"
                     /\ UNCHANGED <<SolveLocals, thevenin, err>>
                [] m = "mesh_current" ->
                     /\ pc' = "solve_by_mesh_current"
                     /\ UNCHANGED <<SolveLocals, thevenin, err>>
                [] m = "thevenin" ->
                     IF port = << >>
                     THEN Throw(ValidationError(MsgNeedPort, NoData))
                          /\ UNCHANGED <<SolveLocals, thevenin>>
                     ELSE IF {"positive", "negative"} \subseteq DOMAIN port[1]
                     THEN /\ pc' = "compute_thevenin_equivalent"
                          /\ thevenin' = [phase |-> "called",
                                          port_pos |-> port[1]["positive"],
                                          port_neg |-> port[1]["negative"]]
                          /\ UNCHANGED <<SolveLocals, err>>
                     ELSE Throw(KeyError) /\ UNCHANGED <<SolveLocals, thevenin>>
                [] m = "transient" ->
                     /\ pc' = "simulate_payload"
                     /\ UNCHANGED <<SolveLocals, thevenin, err>>
                [] m = "transient_modia" ->
                     /\ pc' = "simulate_payload_modia"
                     /\ UNCHANGED <<SolveLocals, thevenin, err>>
                [] OTHER ->
                     Throw(ValidationError(MsgUnsupported \o m, [method |-> m]))
                     /\ UNCHANGED <<SolveLocals, thevenin>>
    /\ UNCHANGED <<payload, Results, response>>
    /\ UNCHANGED <<Shared, Outside>>

(***************************************************************************)
(* solve_by_node_voltage: ground identification and node indexing.         *)
(***************************************************************************)
Range(s) == {s[i] : i \in 1..Len(s)}

GroundNets(components) ==
    {components[i].connections["gnd"] :
        i \in {k \in 1..Len(components) :
                  /\ components[k].type = "ground"
                  /\ "gnd" \in DOMAIN components[k].connections}}

DeclaredGnd(nets) == \E i \in 1..Len(nets) : nets[i].name = "gnd"

\* GroundName with the ground component's net preferred over a declared "gnd".
GroundNamePreferComponent(components, nets) ==
    IF GroundNets(components) # {} THEN CHOOSE g \in GroundNets(components) : TRUE
    ELSE IF DeclaredGnd(nets) THEN "gnd"
    ELSE Nothing

\* first(ground_nets) is only used when the set has one element: with more
\* than one and no declared "gnd" the call throws.
GroundName(components, nets) ==
    IF DeclaredGnd(nets) THEN "gnd"
    ELSE IF GroundNets(components) = {} THEN Nothing
    ELSE CHOOSE g \in GroundNets(components) : TRUE

\* sort(collect(all_nodes)): the declared net names other than the ground.
SortedNodes(nets, gn) ==
    SelectSeq(NetOrder, LAMBDA nm :
        nm # gn /\ \E i \in 1..Len(nets) : nets[i].name = nm)

IdentifyGround ==
    /\ pc = "solve_by_node_voltage"
    /\ LET gn == GroundName(comps, payload.nets)
       IN  IF ~is_resistive_circuit(comps)
           THEN Throw(ValidationError(MsgNodeOnly, NoData)) /\ UNCHANGED <<ground_name, nodes>>
           ELSE IF gn = Nothing
           THEN Throw(ValidationError(MsgNoGroundNode, NoData)) /\ UNCHANGED <<ground_name, nodes>>
           ELSE IF Cardinality(GroundNets(comps)) > 1 /\ ~DeclaredGnd(payload.nets)
           THEN Throw(ValidationError(MsgManyGrounds, [ground_nets |-> GroundNets(comps)])) /\ UNCHANGED <<ground_name, nodes>>
           ELSE /\ ground_name' = gn
                /\ nodes' = SortedNodes(payload.nets, gn)
                /\ pc' = "build"
                /\ UNCHANGED err
    /\ UNCHANGED <<payload, method, caller, comps, vsrc_rows, A, b, x, stages,
                   Results, thevenin, response>>
    /\ UNCHANGED <<Shared, Outside>>

(***************************************************************************)
(* solve_by_node_voltage: the MNA system.                                  *)
(***************************************************************************)
OfType(components, t) == SelectSeq(components, LAMBDA c : c.type = t)

VsrcCandidates(components) ==
    OfType(components, "vsource_dc") \o OfType(components, "vcvs")
        \o OfType(components, "ccvs")

Between(v, cp, cn) ==
    \/ v.connections["pos"] = cp /\ v.connections["neg"] = cn
    \/ v.connections["pos"] = cn /\ v.connections["neg"] = cp

find_vsrc_between(cand, cp, cn) ==
    LET hits == {i \in 1..Len(cand) : Between(cand[i], cp, cn)}
    IN  IF hits = {} THEN [vid |-> Nothing, sign |-> Zero]
        ELSE LET v == cand[CHOOSE i \in hits : \A j \in hits : i <= j]
             IN  IF v.connections["pos"] = cp /\ v.connections["neg"] = cn
                 THEN [vid |-> v.id, sign |-> One]
                 ELSE [vid |-> v.id, sign |-> NNeg(One)]

vsrc_stats_between(cand, cp, cn) ==
    LET hits == {i \in 1..Len(cand) : Between(cand[i], cp, cn)}
    IN  [cnt |-> Cardinality(hits),
         has_ind |-> \E i \in hits : cand[i].type = "vsource_dc"]

\* A controlled source senses through a 0 V source of its own when no
\* voltage branch spans its control pair, or when several do and one of them
\* is an independent source.
NeedsSense(cand, c) ==
    LET st == vsrc_stats_between(cand, c.connections["ctrl_p"], c.connections["ctrl_n"])
    IN  st.cnt = 0 \/ (st.has_ind /\ st.cnt > 1)

SenseSources(cand, list, prefix) ==
    LET need == SelectSeq(list, LAMBDA c : NeedsSense(cand, c))
    IN  [k \in 1..Len(need) |->
            Comp(prefix \o need[k].id, "vsource_dc", [dc |-> Zero],
                 Src(need[k].connections["ctrl_p"], need[k].connections["ctrl_n"]))]

WithSense(cand, components) ==
    cand \o SenseSources(cand, OfType(components, "ccvs"), "_sense_ccvs_")
         \o SenseSources(cand, OfType(components, "cccs"), "_sense_cccs_")

VsrcRows(components) == WithSense(VsrcCandidates(components), components)

HasKey(rows, id) == \E i \in 1..Len(rows) : rows[i].id = id

\* vsrc_index[id]: a later row with the same id replaces an earlier one.
VsrcIndex(rows, id) ==
    CHOOSE i \in 1..Len(rows) :
        rows[i].id = id /\ \A j \in 1..Len(rows) : rows[j].id = id => j <= i

NodeIndex(nds, name) == CHOOSE i \in 1..Len(nds) : nds[i] = name

\* The nets whose node_index the stamps of a component look up.
Lookups(c, gn) ==
    LET at(h) == c.connections[h]
    IN  CASE c.type = "resistor" -> {at("p"), at("n")}
          [] c.type \in {"isource_dc", "vsource_dc", "ccvs", "cccs"} -> {at("pos"), at("neg")}
          [] c.type = "vcvs" -> {at("pos"), at("neg"), at("ctrl_p"), at("ctrl_n")}
          [] c.type = "vccs" ->
                IF at("pos") = gn /\ at("neg") = gn THEN {}
                ELSE {at("pos"), at("neg"), at("ctrl_p"), at("ctrl_n")}
          [] OTHER -> {}

\* node_index[name] raises KeyError for a net that is neither the ground nor
\* declared.
MissingKey(components, rows, gn, nds) ==
    \E c \in Range(components) \cup Range(rows) :
        \E nm \in Lookups(c, gn) : nm # gn /\ nm \notin Range(nds)

\* parameters[key] raises KeyError for a component without the parameter
\* its stamp reads.
LacksParameter(components) ==
    \E i \in 1..Len(components) : ~HasAllParams(components[i])

MAdd(M, i, j, v) == [M EXCEPT ![i][j] = NAdd(@, v)]

VAdd(v, i, d) == [v EXCEPT ![i] = NAdd(@, d)]

\* A[node_index[p], node_index[q]] += v unless p or q is the ground.
AddNodeNode(M, gn, nds, p, q, v) ==
    IF p # gn /\ q # gn THEN MAdd(M, NodeIndex(nds, p), NodeIndex(nds, q), v) ELSE M

\* A[node_index[p], col] += v unless p is the ground.
AddNodeCol(M, gn, nds, p, col, v) ==
    IF p # gn THEN MAdd(M, NodeIndex(nds, p), col, v) ELSE M

\* A[row, node_index[q]] += v unless q is the ground.
AddRowNode(M, gn, nds, row, q, v) ==
    IF q # gn THEN MAdd(M, row, NodeIndex(nds, q), v) ELSE M

\* b[node_index[p]] += d unless p is the ground.
AddNode(v, gn, nds, p, d) ==
    IF p # gn THEN VAdd(v, NodeIndex(nds, p), d) ELSE v

\* A[ip,ip] += g, A[iq,iq] += g, A[ip,iq] -= g, A[iq,ip] -= g with g = 1/R.
StampResistor(M, gn, nds, p, q, g) ==
    AddNodeNode(AddNodeNode(AddNodeNode(AddNodeNode(M, gn, nds, p, p, g),
                                        gn, nds, q, q, g),
                            gn, nds, p, q, NNeg(g)),
                gn, nds, q, p, NNeg(g))

RECURSIVE StampResistors(_, _, _, _, _)
StampResistors(M, list, i, gn, nds) ==
    IF i > Len(list) THEN M
    ELSE StampResistors(
             StampResistor(M, gn, nds, list[i].connections["p"], list[i].connections["n"],
                           NInv(list[i].parameters["value"])),
             list, i + 1, gn, nds)

RECURSIVE StampISources(_, _, _, _, _)
\* b[pos] -= I, b[neg] += I.
StampISources(v, list, i, gn, nds) ==
    IF i > Len(list) THEN v
    ELSE StampISources(
             AddNode(AddNode(v, gn, nds, list[i].connections["pos"],
                             NNeg(list[i].parameters["dc"])),
                     gn, nds, list[i].connections["neg"], list[i].parameters["dc"]),
             list, i + 1, gn, nds)

NoReference == [j |-> 0, sign |-> Zero]

OwnSense(rows, id) ==
    IF HasKey(rows, id) THEN [j |-> VsrcIndex(rows, id), sign |-> One] ELSE NoReference

ReferenceFrom(rows, id, f, st) ==
    IF f.vid # Nothing /\ ~(st.has_ind /\ st.cnt > 1)
    THEN [j |-> VsrcIndex(rows, f.vid), sign |-> f.sign]
    ELSE OwnSense(rows, id)

\* The reference branch of a current-controlled source when it is stamped:
\* an existing voltage branch across the control pair, else its own sense
\* source, else none.
StampReference(cand, rows, c, prefix) ==
    ReferenceFrom(rows, prefix \o c.id,
        find_vsrc_between(cand, c.connections["ctrl_p"], c.connections["ctrl_n"]),
        vsrc_stats_between(cand, c.connections["ctrl_p"], c.connections["ctrl_n"]))

\* A symmetric-looking variant: the constraint row gets +1 at both nets.
StampIncidenceSameSign(M, gn, nds, row, p, q) ==
    AddRowNode(AddNodeCol(AddRowNode(AddNodeCol(M, gn, nds, p, row, One),
                                     gn, nds, row, p, One),
                          gn, nds, q, row, NNeg(One)),
               gn, nds, row, q, One)

\* A[p,row] += 1, A[row,p] += 1, A[q,row] -= 1, A[row,q] -= 1.
StampIncidence(M, gn, nds, row, p, q) ==
    AddRowNode(AddNodeCol(AddRowNode(AddNodeCol(M, gn, nds, p, row, One),
                                     gn, nds, row, p, One),
                          gn, nds, q, row, NNeg(One)),
               gn, nds, row, q, NNeg(One))

\* vcvs: A[row,cp] -= g, A[row,cn] += g.
StampVCVS(M, gn, nds, row, cp, cn, g) ==
    AddRowNode(AddRowNode(M, gn, nds, row, cp, NNeg(g)), gn, nds, row, cn, g)

\* ccvs: A[row, n+j] -= g*sign at the reference branch j.
StampCCVS(M, n, row, g, ref) ==
    IF ref.j # 0 THEN MAdd(M, row, n + ref.j, NNeg(NMul(g, ref.sign))) ELSE M

StampConstraint(M, gn, nds, row, v, rows, cand) ==
    CASE v.type = "vcvs" ->
             StampVCVS(M, gn, nds, row, v.connections["ctrl_p"], v.connections["ctrl_n"],
                       v.parameters["gain"])
      [] v.type = "ccvs" ->
             StampCCVS(M, Len(nds), row, v.parameters["gain"],
                       StampReference(cand, rows, v, "_sense_ccvs_"))
      [] OTHER -> M

RECURSIVE StampVsrcRows(_, _, _, _, _, _)
\* Incidence entries of every voltage branch and the constraint of each kind.
StampVsrcRows(M, rows, k, gn, nds, cand) ==
    IF k > Len(rows) THEN M
    ELSE StampVsrcRows(
             StampConstraint(
                 StampIncidence(M, gn, nds, Len(nds) + k,
                                rows[k].connections["pos"], rows[k].connections["neg"]),
                 gn, nds, Len(nds) + k, rows[k], rows, cand),
             rows, k + 1, gn, nds, cand)

\* b[row] = dc for the independent (and sense) sources.
SourceValues(v, rows, n) ==
    [i \in 1..Len(v) |->
        IF i > n /\ rows[i - n].type = "vsource_dc"
        THEN rows[i - n].parameters["dc"] ELSE v[i]]

\* A[pos, n+j] += g*sign, A[neg, n+j] -= g*sign at the reference branch j.
StampOneCCCS(M, gn, nds, pos, neg, g, ref) ==
    IF ref.j = 0 THEN M
    ELSE AddNodeCol(AddNodeCol(M, gn, nds, pos, Len(nds) + ref.j, NMul(g, ref.sign)),
                    gn, nds, neg, Len(nds) + ref.j, NNeg(NMul(g, ref.sign)))

RECURSIVE StampCCCS(_, _, _, _, _, _, _)
StampCCCS(M, list, i, gn, nds, cand, rows) ==
    IF i > Len(list) THEN M
    ELSE StampCCCS(
             StampOneCCCS(M, gn, nds, list[i].connections["pos"], list[i].connections["neg"],
                          list[i].parameters["gain"],
                          StampReference(cand, rows, list[i], "_sense_cccs_")),
             list, i + 1, gn, nds, cand, rows)

\* A[pos,cp] += g, A[pos,cn] -= g, A[neg,cp] -= g, A[neg,cn] += g.
StampOneVCCS(M, gn, nds, pos, neg, cp, cn, g) ==
    AddNodeNode(AddNodeNode(AddNodeNode(AddNodeNode(M, gn, nds, pos, cp, g),
                                        gn, nds, pos, cn, NNeg(g)),
                            gn, nds, neg, cp, NNeg(g)),
                gn, nds, neg, cn, g)

RECURSIVE StampVCCS(_, _, _, _, _)
StampVCCS(M, list, i, gn, nds) ==
    IF i > Len(list) THEN M
    ELSE StampVCCS(
             StampOneVCCS(M, gn, nds, list[i].connections["pos"], list[i].connections["neg"],
                          list[i].connections["ctrl_p"], list[i].connections["ctrl_n"],
                          list[i].parameters["gain"]),
             list, i + 1, gn, nds)

\* 1e-12, the size of every regularisation term.
Ridge == Milli(4)

SamePair(u, v) ==
    \/ u.connections["pos"] = v.connections["pos"] /\ u.connections["neg"] = v.connections["neg"]
    \/ u.connections["pos"] = v.connections["neg"] /\ u.connections["neg"] = v.connections["pos"]

\* pair_map: every voltage branch but the first of those spanning the same
\* unordered pair of nets gets 1e-12 on the diagonal of its row.
DuplicateRows(rows) ==
    {k \in 1..Len(rows) : \E j \in 1..(k - 1) : SamePair(rows[j], rows[k])}

\* Every branch that shares its pair of nets gets the term, the first too.
RegularizeDuplicatesAll(M, rows, n) ==
    [i \in 1..Len(M) |-> [j \in 1..Len(M) |->
        IF i = j /\ \E k \in 1..Len(rows) : k # i - n /\ (i - n) \in 1..Len(rows)
                                              /\ SamePair(rows[k], rows[i - n])
        THEN NAdd(M[i][j], Ridge) ELSE M[i][j]]]

RegularizeDuplicates(M, rows, n) ==
    [i \in 1..Len(M) |-> [j \in 1..Len(M) |->
        IF i = j /\ (i - n) \in DuplicateRows(rows) THEN NAdd(M[i][j], Ridge) ELSE M[i][j]]]

ZeroMatrix(N) == [i \in 1..N |-> [j \in 1..N |-> Zero]]

\* The matrix after the stamps of every component, before pair_map is built.
Stamps(components, gn, nds, rows, cand) ==
    StampVCCS(
        StampCCCS(
            StampVsrcRows(
                StampResistors(ZeroMatrix(Len(nds) + Len(rows)),
                               OfType(components, "resistor"), 1, gn, nds),
                rows, 1, gn, nds, cand),
            OfType(components, "cccs"), 1, gn, nds, cand, rows),
        OfType(components, "vccs"), 1, gn, nds)

StampAll(components, gn, nds, rows, cand) ==
    RegularizeDuplicates(Stamps(components, gn, nds, rows, cand), rows, Len(nds))

MnaMatrix(components, gn, nds) ==
    StampAll(components, gn, nds, VsrcRows(components), VsrcCandidates(components))

MnaVector(components, gn, nds, rows) ==
    SourceValues(
        StampISources([i \in 1..(Len(nds) + Len(rows)) |-> Zero],
                      OfType(components, "isource_dc"), 1, gn, nds),
        rows, Len(nds))

BuildMNA ==
    /\ pc = "build"
    /\ IF \/ LacksParameter(comps)
          \/ MissingKey(comps, VsrcRows(comps), ground_name, nodes)
       THEN Throw(KeyError) /\ UNCHANGED <<vsrc_rows, A, b>>
       ELSE /\ vsrc_rows' = VsrcRows(comps)
            /\ A' = MnaMatrix(comps, ground_name, nodes)
            /\ b' = MnaVector(comps, ground_name, nodes, VsrcRows(comps))
            /\ pc' = "solve"
            /\ UNCHANGED err
    /\ UNCHANGED <<payload, method, caller, comps, ground_name, nodes, x, stages,
                   Results, thevenin, response>>
    /\ UNCHANGED <<Shared, Outside>>

(***************************************************************************)
(* solve_by_node_voltage: the solver and its fallbacks.                    *)
(***************************************************************************)
Untouched == <<payload, method, caller, comps, ground_name, nodes, vsrc_rows,
               Results, thevenin, err, response>>

\* The outcome r of A \ b: the solution, or on a SingularException the next
\* stage.
Solution(r, fallback) ==
    IF r.singular
    THEN pc' = fallback /\ UNCHANGED x
    ELSE pc' = "extract" /\ x' = r.x

\* x = A \ b; a SingularException leads to the regularised retry.
DirectSolve ==
    /\ pc = "solve"
    /\ stages' = Append(stages, "exact")
    /\ \E r \in {LeftDivide(A, b)} : Solution(r, "ridge")
    /\ UNCHANGED <<A, b>>
    /\ UNCHANGED Untouched
    /\ UNCHANGED <<Shared, Outside>>

\* RidgeSolve with the second SingularException rethrown.
RidgeSolveRethrow ==
    /\ pc = "ridge"
    /\ A' = AddDiag(A, Ridge)
    /\ stages' = Append(stages, "ridge")
    /\ \E r \in {LeftDivide(A', b)} : Solution(r, "catch")
    /\ UNCHANGED b
    /\ UNCHANGED Untouched
    /\ UNCHANGED <<Shared, Outside>>

\* 1e-12 is added to all n + m diagonal entries and A \ b is retried; a
\* second SingularException leads to the pseudo-inverse.
RidgeSolve ==
    /\ pc = "ridge"
    /\ A' = AddDiag(A, Ridge)
    /\ stages' = Append(stages, "ridge")
    /\ \E r \in {LeftDivide(A', b)} : Solution(r, "pinv")
    /\ UNCHANGED b
    /\ UNCHANGED Untouched
    /\ UNCHANGED <<Shared, Outside>>

\* x = pinv(A) * b on the regularised matrix.
PinvFallback ==
    /\ pc = "pinv"
    /\ x' = PinvSolve(A, b)
    /\ stages' = Append(stages, "pinv")
    /\ pc' = "extract"
    /\ UNCHANGED <<A, b>>
    /\ UNCHANGED Untouched
    /\ UNCHANGED <<Shared, Outside>>

(***************************************************************************)
(* solve_by_node_voltage: the result maps.                                 *)
(***************************************************************************)
Put(f, k, v) == [y \in DOMAIN f \cup {k} |-> IF y = k THEN v ELSE f[y]]

\* get(map, key, 0.0)
Get(f, k) == IF k \in DOMAIN f THEN f[k] ELSE Zero

\* NodeVoltages with a table kept across requests: once its cache is filled
\* the voltages of the first nets are returned for every request.
NodeVoltagesCached(gn, nds, sol) ==
    [nm \in {"gnd", gn} \cup Range(nds) |->
        IF nm \in Range(nds) /\ simplify_cache = {} THEN sol[NodeIndex(nds, nm)] ELSE Zero]

\* NodeVoltages without the "gnd" alias of a ground net of another name.
NodeVoltagesNoAlias(gn, nds, sol) ==
    [nm \in {gn} \cup Range(nds) |->
        IF nm \in Range(nds) THEN sol[NodeIndex(nds, nm)] ELSE Zero]

NodeVoltages(gn, nds, sol) ==
    [nm \in {"gnd", gn} \cup Range(nds) |->
        IF nm \in Range(nds) THEN sol[NodeIndex(nds, nm)] ELSE Zero]

\* startswith(id, "_sense_ccvs_") || startswith(id, "_sense_cccs_"), on the
\* ids a solve can hold: a prefix followed by the id of a part.
IsSenseId(id, components) ==
    \E c \in Range(components) \cup Range(Catalogue) :
        id \in {"_sense_ccvs_" \o c.id, "_sense_cccs_" \o c.id}

\* ResistorCurrents with the current taken from n to p.
ResistorCurrentsReversed(bc, list, i, nv) ==
    [id \in DOMAIN bc \cup {list[k].id : k \in i..Len(list)} |->
        IF \E k \in i..Len(list) : list[k].id = id
        THEN LET k == CHOOSE k \in i..Len(list) : list[k].id = id
             IN  NDiv(NSub(Get(nv, list[k].connections["n"]),
                           Get(nv, list[k].connections["p"])),
                      list[k].parameters["value"])
        ELSE bc[id]]

RECURSIVE ResistorCurrents(_, _, _, _)
\* branch_currents[r.id] = (vp - vq) / R
ResistorCurrents(bc, list, i, nv) ==
    IF i > Len(list) THEN bc
    ELSE ResistorCurrents(
             Put(bc, list[i].id,
                 NDiv(NSub(Get(nv, list[i].connections["p"]),
                           Get(nv, list[i].connections["n"])),
                      list[i].parameters["value"])),
             list, i + 1, nv)

\* VsrcCurrents with the current taken from neg to pos.
VsrcCurrentsReversed(bc, rows, k, n, sol, components) ==
    LET own == {j \in k..Len(rows) :
                   /\ rows[j].type \in {"vsource_dc", "vcvs", "ccvs"}
                   /\ ~IsSenseId(rows[j].id, components)}
    IN  [id \in DOMAIN bc \cup {rows[j].id : j \in own} |->
            IF \E j \in own : rows[j].id = id
            THEN NNeg(sol[n + (CHOOSE j \in own : rows[j].id = id)])
            ELSE bc[id]]

RECURSIVE VsrcCurrents(_, _, _, _, _, _)
\* branch_currents[vsrc.id] = x[n + k] for the rows that are not sense sources
VsrcCurrents(bc, rows, k, n, sol, components) ==
    IF k > Len(rows) THEN bc
    ELSE VsrcCurrents(
             IF rows[k].type \in {"vsource_dc", "vcvs", "ccvs"}
                /\ ~IsSenseId(rows[k].id, components)
             THEN Put(bc, rows[k].id, sol[n + k]) ELSE bc,
             rows, k + 1, n, sol, components)

ReportFrom(rows, id, f) ==
    IF f.vid # Nothing
    THEN [j |-> VsrcIndex(rows, f.vid), sign |-> f.sign]
    ELSE OwnSense(rows, id)

\* The reference branch of a CCCS when its current is reported.
ReportReference(cand, rows, c) ==
    ReportFrom(rows, "_sense_cccs_" \o c.id,
        find_vsrc_between(cand, c.connections["ctrl_p"], c.connections["ctrl_n"]))

\* branch_currents[f.id] = g * sign * x[n + j]
CccsCurrent(bc, f, n, sol, ref) ==
    IF ref.j # 0
    THEN Put(bc, f.id, NMul(NMul(f.parameters["gain"], ref.sign), sol[n + ref.j]))
    ELSE bc

RECURSIVE CccsCurrents(_, _, _, _, _, _, _)
CccsCurrents(bc, list, i, n, sol, cand, rows) ==
    IF i > Len(list) THEN bc
    ELSE CccsCurrents(
             CccsCurrent(bc, list[i], n, sol, ReportReference(cand, rows, list[i])),
             list, i + 1, n, sol, cand, rows)

RECURSIVE ISourceCurrents(_, _, _)
\* branch_currents[s.id] = dc
ISourceCurrents(bc, list, i) ==
    IF i > Len(list) THEN bc
    ELSE ISourceCurrents(Put(bc, list[i].id, list[i].parameters["dc"]), list, i + 1)

BranchCurrents(components, rows, nds, sol, nv) ==
    ISourceCurrents(
        CccsCurrents(
            VsrcCurrents(
                ResistorCurrents(EmptyMap, OfType(components, "resistor"), 1, nv),
                rows, 1, Len(nds), sol, components),
            OfType(components, "cccs"), 1, Len(nds), sol,
            VsrcCandidates(components), rows),
        OfType(components, "isource_dc"), 1)

\* The result maps are built and control returns to the caller.
Extract ==
    /\ pc = "extract"
    /\ node_voltages' = NodeVoltages(ground_name, nodes, x)
    /\ branch_currents' = BranchCurrents(comps, vsrc_rows, nodes, x, node_voltages')
    /\ pc' = "return"
    /\ UNCHANGED <<payload, method, caller, comps, ground_name, nodes, vsrc_rows,
                   A, b, x, stages, thevenin, err, response>>
    /\ UNCHANGED <<Shared, Outside>>

(***************************************************************************)
(* run_simulation: the callers of solve_by_node_voltage and the envelope.  *)
(***************************************************************************)
OkResponse(m, message, data) ==
    [status |-> "ok", message |-> message, method |-> m, data |-> data]

\* method "node_voltage": the result of the solve is the data of the reply.
NodeVoltageReturn ==
    /\ pc = "return" /\ caller = "node_voltage"
    /\ response' = OkResponse(method, MsgNodeDone,
                               [node_voltages |-> node_voltages,
                                branch_currents |-> branch_currents])
    /\ pc' = "done"
    /\ UNCHANGED <<payload, method, SolveLocals, Results, thevenin, err>>
    /\ UNCHANGED <<Shared, Outside>>

\* solve_by_branch_current / solve_by_mesh_current up to their call of
\* solve_by_node_voltage: the equations they set up are only displayed.
SolveByBranchCurrent ==
    /\ pc = "solve_by_branch_current"
    /\ IF is_resistive_circuit(payload.components)
       THEN CallSolve("branch_current", payload.components) /\ UNCHANGED err
       ELSE Throw(ValidationError(MsgBranchOnly, NoData)) /\ UNCHANGED SolveLocals
    /\ UNCHANGED <<payload, method, Results, thevenin, response>>
    /\ UNCHANGED <<Shared, Outside>>

\* SolveByMeshCurrent with the transient simulation taken for a circuit that
\* is not purely resistive.
SolveByMeshCurrentTransient ==
    /\ pc = "solve_by_mesh_current"
    /\ IF is_resistive_circuit(payload.components)
       THEN CallSolve("mesh_current", payload.components) /\ UNCHANGED err
       ELSE pc' = "simulate_payload" /\ UNCHANGED <<SolveLocals, err>>
    /\ UNCHANGED <<payload, method, Results, thevenin, response>>
    /\ UNCHANGED <<Shared, Outside>>

SolveByMeshCurrent ==
    /\ pc = "solve_by_mesh_current"
    /\ IF is_resistive_circuit(payload.components)
       THEN CallSolve("mesh_current", payload.components) /\ UNCHANGED err
       ELSE Throw(ValidationError(MsgMeshOnly, NoData)) /\ UNCHANGED SolveLocals
    /\ UNCHANGED <<payload, method, Results, thevenin, response>>
    /\ UNCHANGED <<Shared, Outside>>

\* The net a terminal is listed in ("" when in none; the last one wins).
NetOfTerminal(nets, id, handle) ==
    LET hits == {i \in 1..Len(nets) : <<id, handle>> \in Range(nets[i].nodes)}
    IN  IF hits = {} THEN ""
        ELSE nets[CHOOSE i \in hits : \A j \in hits : j <= i].name

\* The current the branch and mesh methods report for one branch.
BranchValue(br, vp, vn) ==
    CASE br.type = "resistor" -> NDiv(NSub(vp, vn), br.parameters["value"])
      [] br.type = "vsource_dc" -> Zero
      [] OTHER -> br.parameters["dc"]

RECURSIVE BranchTable(_, _, _, _, _)
\* Currents of the branches (resistors, vsource_dc, isource_dc) as the
\* branch and mesh methods report them.
BranchTable(bc, branches, i, nets, nv) ==
    IF i > Len(branches) THEN bc
    ELSE BranchTable(
             Put(bc, branches[i].id,
                 BranchValue(branches[i],
                             Get(nv, NetOfTerminal(nets, branches[i].id, "p")),
                             Get(nv, NetOfTerminal(nets, branches[i].id, "n")))),
             branches, i + 1, nets, nv)

Branches(components) ==
    OfType(components, "resistor") \o OfType(components, "vsource_dc")
        \o OfType(components, "isource_dc")

BranchMeshReturn ==
    /\ pc = "return" /\ caller \in {"branch_current", "mesh_current"}
    /\ response' = OkResponse(method,
           IF caller = "branch_current" THEN MsgBranchDone ELSE MsgMeshDone,
           [node_voltages |-> node_voltages,
            branch_currents |-> BranchTable(EmptyMap, Branches(payload.components), 1,
                                            payload.nets, node_voltages)])
    /\ pc' = "done"
    /\ UNCHANGED <<payload, method, SolveLocals, Results, thevenin, err>>
    /\ UNCHANGED <<Shared, Outside>>

(***************************************************************************)
(* compute_thevenin_equivalent                                             *)
(***************************************************************************)
\* 1e-6 ohm, the resistor that shorts the port.
ShortResistance == Milli(2)

\* 1e-12 A, below which the short-circuit current counts as zero.
IscThreshold == Milli(4)

\* 1e12 ohm, reported for an open port.
OpenRth == NInv(Milli(4))

ShortResistor(pos, neg) ==
    Comp("_thevenin_short", "resistor", [value |-> ShortResistance], Two(pos, neg))

TheveninOpen ==
    /\ pc = "compute_thevenin_equivalent"
    /\ IF is_resistive_circuit(payload.components)
       THEN /\ CallSolve("thevenin_open", payload.components)
            /\ thevenin' = [thevenin EXCEPT !.phase = "open"]
            /\ UNCHANGED err
       ELSE Throw(ValidationError(MsgTheveninOnly, NoData)) /\ UNCHANGED <<SolveLocals, thevenin>>
    /\ UNCHANGED <<payload, method, Results, response>>
    /\ UNCHANGED <<Shared, Outside>>

\* vth from the open-circuit solve; then the solve with the port shorted.
TheveninShort ==
    /\ pc = "return" /\ caller = "thevenin_open"
    /\ thevenin' = [phase |-> "short",
                    port_pos |-> thevenin.port_pos,
                    port_neg |-> thevenin.port_neg,
                    vth |-> NSub(Get(node_voltages, thevenin.port_pos),
                                 Get(node_voltages, thevenin.port_neg))]
    /\ CallSolve("thevenin_short",
                 Append(payload.components,
                        ShortResistor(thevenin.port_pos, thevenin.port_neg)))
    /\ UNCHANGED <<payload, method, Results, err, response>>
    /\ UNCHANGED <<Shared, Outside>>

\* Rth with the threshold applied to isc instead of |isc|.
RthSigned(vth, isc) ==
    IF NLess(IscThreshold, isc) THEN NAbs(NDiv(vth, isc)) ELSE OpenRth

Rth(vth, isc) ==
    IF NLess(IscThreshold, NAbs(isc)) THEN NAbs(NDiv(vth, isc)) ELSE OpenRth

TheveninResult(t, isc) ==
    [phase |-> "done", port_pos |-> t.port_pos, port_neg |-> t.port_neg,
     vth |-> t.vth, isc |-> isc, rth |-> Rth(t.vth, isc)]

TheveninReturn ==
    /\ pc = "return" /\ caller = "thevenin_short"
    /\ thevenin' = TheveninResult(thevenin, Get(branch_currents, "_thevenin_short"))
    /\ response' = OkResponse(method, MsgTheveninDone,
           [vth |-> thevenin'.vth, rth |-> thevenin'.rth,
            port |-> [positive |-> thevenin'.port_pos,
                      negative |-> thevenin'.port_neg]])
    /\ pc' = "done"
    /\ UNCHANGED <<payload, method, SolveLocals, Results, err>>
    /\ UNCHANGED <<Shared, Outside>>

(***************************************************************************)
(* simulate_payload: the checks in front of the transient simulation.  The *)
(* simulation itself is not modelled: it yields data, fails with a         *)
(* ValidationError or raises another exception.                            *)
(***************************************************************************)
IndependentSources == {"vsource_dc", "vsource_ac", "isource_dc", "isource_ac"}

\* The checks simulate_payload and simulate_payload_modia start with.
SettingsCheck(p) ==
    IF ~(NSign(p.sim.t_stop) > 0) THEN ValidationError(MsgBadStop, NoData)
    ELSE IF ~(p.sim.n_samples > 1) THEN ValidationError(MsgBadSamples, NoData)
    ELSE IF p.components = << >> THEN ValidationError(MsgEmpty, NoData)
    ELSE NoError

\* require_parameter on the first component that lacks a parameter.
ParameterCheck(cs) ==
    IF \A i \in 1..Len(cs) : HasAllParams(cs[i]) THEN NoError
    ELSE ValidationError(
             MsgMissingParam \o Head(MissingParams(
                 cs[CHOOSE i \in 1..Len(cs) :
                       /\ ~HasAllParams(cs[i])
                       /\ \A j \in 1..(i - 1) : HasAllParams(cs[j])])),
             [component |-> cs[CHOOSE i \in 1..Len(cs) :
                                  /\ ~HasAllParams(cs[i])
                                  /\ \A j \in 1..(i - 1) : HasAllParams(cs[j])].id,
              parameter |-> Head(MissingParams(
                                cs[CHOOSE i \in 1..Len(cs) :
                                      /\ ~HasAllParams(cs[i])
                                      /\ \A j \in 1..(i - 1) : HasAllParams(cs[j])]))])

\* The first net with fewer than 2 terminals.
NetCheck(nets) ==
    IF nets = << >> THEN ValidationError(MsgNoNets, NoData)
    ELSE IF \A i \in 1..Len(nets) : Len(nets[i].nodes) >= 2 THEN NoError
    ELSE ValidationError(
             MsgFewTerminals,
             [net |-> nets[CHOOSE i \in 1..Len(nets) :
                              /\ Len(nets[i].nodes) < 2
                              /\ \A j \in 1..(i - 1) : Len(nets[j].nodes) >= 2].name])

\* The ValidationError the checks of simulate_payload end with, if any.
PayloadCheck(p) ==
    IF SettingsCheck(p) # NoError THEN SettingsCheck(p)
    ELSE IF ~\E i \in 1..Len(p.components) : p.components[i].type = "ground"
    THEN ValidationError(MsgNoGround, [missing |-> <<"ground">>])
    ELSE IF ~\E i \in 1..Len(p.components) : p.components[i].type \in IndependentSources
    THEN ValidationError(MsgNoSource, [missing |-> <<"source">>])
    ELSE IF ParameterCheck(p.components) # NoError THEN ParameterCheck(p.components)
    ELSE NetCheck(p.nets)

\* The key of _SIMPLIFY_CACHE: component ids, types and connections, and nets.
TopoKey(p) ==
    [components |-> [i \in 1..Len(p.components) |->
                        [id |-> p.components[i].id, type |-> p.components[i].type,
                         conn |-> p.components[i].connections]],
     nets |-> p.nets]

Called(m) == [m EXCEPT !.simulate_calls = @ + 1]

\* structural_simplify(circuit): the system of the request, which holds the
\* parameter values its components were instantiated with as defaults.
Simplified(p) ==
    [i \in 1..Len(p.components) |->
        [id |-> p.components[i].id, defaults |-> p.components[i].parameters]]

CacheKeys(cache) == {e.key : e \in cache}

\* get(_SIMPLIFY_CACHE, topo_key, nothing) on a hit.
CacheGet(cache, key) == (CHOOSE e \in cache : e.key = key).system

\* The system the problem is built from: the cached one on a hit.
SystemFor(cache, p) ==
    IF TopoKey(p) \in CacheKeys(cache) THEN CacheGet(cache, TopoKey(p)) ELSE Simplified(p)

\* The cache after the look-up: a miss stores the system of the request.
CacheAfter(cache, p) ==
    IF TopoKey(p) \in CacheKeys(cache) THEN cache
    ELSE cache \cup {[key |-> TopoKey(p), system |-> Simplified(p)]}

\* solve(ODEProblem(simplified, u0_map, tspan, p_map), Rodas5(); saveat): the
\* solution is that of the system with its defaults on the grid of sim.
TransientSolution(system, sim) ==
    [time |-> [t_stop |-> sim.t_stop, n_samples |-> sim.n_samples], signals |-> system]

\* The counters after the look-up of key in the cache.
LookedUp(m, cache, key) ==
    IF key \in CacheKeys(cache) THEN [m EXCEPT !.simplify_hits = @ + 1]
    ELSE [m EXCEPT !.simplify_misses = @ + 1]

SimulatePayload ==
    /\ pc = "simulate_payload"
    /\ IF PayloadCheck(payload) # NoError
       THEN /\ Throw(PayloadCheck(payload))
            /\ metrics' = Called(metrics)
            /\ UNCHANGED <<response, simplify_cache>>
       ELSE \/ /\ Throw(OtherError("ErrorException"))
               /\ metrics' = Called(metrics)
               /\ UNCHANGED <<response, simplify_cache>>
            \/ /\ simplify_cache' = CacheAfter(simplify_cache, payload)
               /\ metrics' = LookedUp(Called(metrics), simplify_cache, TopoKey(payload))
               /\ \/ /\ response' = OkResponse(method,
                               IF method = "transient" THEN MsgTransientDone
                               ELSE MsgModiaDone,
                               TransientSolution(SystemFor(simplify_cache, payload),
                                                 payload.sim))
                     /\ pc' = "done"
                     /\ UNCHANGED err
                  \/ /\ Throw(ValidationError(MsgSolveFailed, [retcode |-> "Failure"]))
                     /\ UNCHANGED response
    /\ UNCHANGED <<payload, method, SolveLocals, Results, thevenin, Outside>>

\* simulate_payload_modia: Modia is looked for and loaded, then
\* simulate_payload runs.
SimulatePayloadModia ==
    /\ pc = "simulate_payload_modia"
    /\ IF SettingsCheck(payload) # NoError
       THEN Throw(SettingsCheck(payload))
       ELSE \/ Throw(ValidationError(MsgNoModia, [missing |-> <<"Modia">>]))
            \/ Throw(ValidationError(MsgModiaLoad, [error |-> "ErrorException"]))
            \/ pc' = "simulate_payload" /\ UNCHANGED err
    /\ UNCHANGED <<payload, method, SolveLocals, Results, thevenin, response>>
    /\ UNCHANGED <<Shared, Outside>>

\* Catch with the text of any exception passed on as the message.
CatchShowingException ==
    /\ pc = "catch"
    /\ response' = [status |-> "error",
                    message |-> IF err.kind = "ValidationError" THEN err.message
                                ELSE err.kind,
                    data |-> err.data]
    /\ pc' = "done"
    /\ UNCHANGED <<payload, method, SolveLocals, Results, thevenin, err>>
    /\ UNCHANGED <<Shared, Outside>>

\* The catch block: a ValidationError is reported with its message and data,
\* anything else as "internal error".
Catch ==
    /\ pc = "catch"
    /\ response' = IF err.kind = "ValidationError"
                   THEN [status |-> "error", message |-> err.message, data |-> err.data]
                   ELSE [status |-> "error", message |-> MsgInternal,
                         data |-> [error |-> err.kind]]
    /\ pc' = "done"
    /\ UNCHANGED <<payload, method, SolveLocals, Results, thevenin, err>>
    /\ UNCHANGED <<Shared, Outside>>

Next ==
    \/ Route
    \/ IdentifyGround
    \/ BuildMNA
    \/ DirectSolve
    \/ RidgeSolve
    \/ PinvFallback
    \/ Extract
    \/ NodeVoltageReturn
    \/ SolveByBranchCurrent
    \/ SolveByMeshCurrent
    \/ BranchMeshReturn
    \/ TheveninOpen
    \/ TheveninShort
    \/ TheveninReturn
    \/ SimulatePayload
    \/ SimulatePayloadModia
    \/ Catch

Spec == Init /\ [][Next]_vars

(***************************************************************************)
(* The server between calls: _METRICS and _SIMPLIFY_CACHE live as long as   *)
(* the process.  A DC request is sent, answered, and sent again, while the  *)
(* transient simulations of up to MaxOthers other requests count their      *)
(* calls and fill the cache at any moment.                                  *)
(***************************************************************************)
MaxOthers == 2

\* The circuits of the server runs, by the ids of their parts: the divider
\* without and with its ground component, a floating loop beside a
\* negative resistor, a source over a loop, a capacitor, a lone resistor,
\* and the divider fed by the source with the reserved id.
ServerParts ==
    { {"V1", "R1", "R2"}, {"V1", "R1", "R2", "GND1"}, {"R3", "RX"},
      {"V1", "R3"}, {"V1", "C1"}, {"R1"}, {"_sense_ccvs_H1", "R1", "R2"},
      {"E2", "E3", "F1", "R2"}, {"V1", "R1", "F1"}, {"V1", "V2", "H1"}, {"R1", "R2", "H1"} }

\* Two VCVS with their outputs in parallel across the nets a and ground.
ParallelParts ==
    << Comp("E2", "vcvs", [gain |-> FromInt(2)], Ctl("a", "G", "n1", "G")),
       Comp("E3", "vcvs", [gain |-> FromInt(2)], Ctl("a", "G", "n1", "G")) >>

ServerCatalogue == Catalogue \o ReservedParts \o ParallelParts

ServerCircuits ==
    {Circuit(Pick(ServerCatalogue,
                  SelectSeq([i \in 1..Len(ServerCatalogue) |-> i],
                            LAMBDA i : ServerCatalogue[i].id \in ids),
                  g)) :
        ids \in ServerParts, g \in GroundNames}

ServerRequests == {rq \in Requests : rq.method \in DcMethods \cup {Nothing}}

ServerInit ==
    /\ \E circuit \in ServerCircuits, rq \in ServerRequests :
          payload = SimulationPayload(circuit, rq)
    /\ Fresh

\* The same request arrives again: a new call of run_simulation, with what
\* the first call returned kept for comparison.
Again ==
    /\ pc = "done"
    /\ earlier.run = 0
    /\ earlier' = [run |-> 1, node_voltages |-> node_voltages,
                   branch_currents |-> branch_currents, thevenin |-> thevenin,
                   response |-> response]
    /\ pc' = "run_simulation"
    /\ method' = Nothing
    /\ caller' = Nothing
    /\ comps' = << >>
    /\ ground_name' = Nothing
    /\ nodes' = << >>
    /\ vsrc_rows' = << >>
    /\ A' = << >>
    /\ b' = << >>
    /\ x' = << >>
    /\ stages' = << >>
    /\ node_voltages' = EmptyMap
    /\ branch_currents' = EmptyMap
    /\ thevenin' = [phase |-> "none"]
    /\ err' = NoError
    /\ response' = NoResponse
    /\ UNCHANGED <<payload, Shared, canvas, built, project>>

\* The transient simulation of another request, in between or concurrently:
\* it counts its call and either fails its checks or looks its topology up
\* in the cache, here the topology of this request or another one.
OtherRequest ==
    /\ metrics.simulate_calls < MaxOthers
    /\ \/ metrics' = Called(metrics) /\ UNCHANGED simplify_cache
       \/ \E p \in {payload, [components |-> << >>, nets |-> << >>]} :
             /\ metrics' = LookedUp(Called(metrics), simplify_cache, TopoKey(p))
             /\ simplify_cache' = CacheAfter(simplify_cache, p)
    /\ UNCHANGED <<payload, pc, method, SolveLocals, Results, thevenin, err, response,
                   Outside>>

ServerNext ==
    \/ Route
    \/ IdentifyGround
    \/ BuildMNA
    \/ DirectSolve
    \/ RidgeSolve
    \/ PinvFallback
    \/ Extract
    \/ NodeVoltageReturn
    \/ SolveByBranchCurrent
    \/ SolveByMeshCurrent
    \/ BranchMeshReturn
    \/ TheveninOpen
    \/ TheveninShort
    \/ TheveninReturn
    \/ Catch
    \/ Again
    \/ OtherRequest

ServerSpec == ServerInit /\ [][ServerNext]_vars

(***************************************************************************)
(* The classifier on its own: requests without a method, made of up to     *)
(* MaxTypes components of any type, with and without parameters, on        *)
(* different nets, with and without a nets list.  run_simulation            *)
(* auto-detects the method from is_resistive_circuit.                      *)
(***************************************************************************)
MaxTypes == 2

\* The types of COMPONENT_SCHEMAS and one type outside of it.
AllTypes == DOMAIN COMPONENT_SCHEMAS \cup {"diode"}

TypeSamples ==
    {Comp("U1", t, EmptyMap, Two("a", "gnd")) : t \in AllTypes}
    \cup {Comp("U2", t, [value |-> One], Two("n1", "n1")) : t \in AllTypes}

RECURSIVE SeqsUpTo(_, _)
\* The sequences over S of length at most n.
SeqsUpTo(S, n) ==
    IF n = 0 THEN {<< >>}
    ELSE SeqsUpTo(S, n - 1)
         \cup {Append(s, e) : s \in {q \in SeqsUpTo(S, n - 1) : Len(q) = n - 1}, e \in S}

ClassifierInputs ==
    {[components |-> cs, nets |-> nets] :
        cs \in SeqsUpTo(TypeSamples, MaxTypes),
        nets \in {<< >>, <<[name |-> "gnd", nodes |-> << >>]>>}}

ClassifyInit ==
    /\ \E circuit \in ClassifierInputs :
          payload = SimulationPayload(circuit,
                        [method |-> Nothing, thevenin_port |-> << >>, sim |-> GoodSim])
    /\ Fresh

ClassifyNext == Route

ClassifySpec == ClassifyInit /\ [][ClassifyNext]_vars

(***************************************************************************)
(* Properties.                                                             *)
(***************************************************************************)
Solved == pc = "return"

Nano == Milli(3)

\* The determinant of M is zero.
IsSingular(M, v) ==
    PSign(DetP(ScaledSystem(M, v), Iota(Len(M)), Iota(Len(M)))) = 0

RECURSIVE KclSum(_, _, _, _)
\* Signed sum of the reported currents at net N: + for p/pos, - for n/neg.
KclSum(components, bc, N, i) ==
    IF i > Len(components) THEN Zero
    ELSE LET c    == components[i]
             hp   == IF c.type = "resistor" THEN "p" ELSE "pos"
             hn   == IF c.type = "resistor" THEN "n" ELSE "neg"
             cur  == Get(bc, c.id)
             plus == IF hp \in DOMAIN c.connections /\ c.connections[hp] = N
                     THEN cur ELSE Zero
             minus == IF hn \in DOMAIN c.connections /\ c.connections[hn] = N
                      THEN cur ELSE Zero
         IN  NAdd(NSub(plus, minus), KclSum(components, bc, N, i + 1))

\* C2: in every solved circuit, at every non-ground net the signed sum of the
\* returned branch currents of the attached components is 0 within 1e-9.
C2_KclConservation ==
    Solved =>
        \A k \in 1..Len(nodes) :
            NLeq(NAbs(KclSum(comps, branch_currents, nodes[k], 1)), Nano)

IsDividerPart(c) ==
    \/ c.id = "V1" /\ c.type = "vsource_dc" /\ NEq(c.parameters["dc"], FromInt(9))
         /\ c.connections = Src("a", ground_name)
    \/ c.id = "R1" /\ c.type = "resistor" /\ NEq(c.parameters["value"], FromInt(3000))
         /\ c.connections = Two("a", "n1")
    \/ c.id = "R2" /\ c.type = "resistor" /\ NEq(c.parameters["value"], FromInt(6000))
         /\ c.connections = Two("n1", ground_name)

\* The solved circuit is the 9 V / 3 k / 6 k divider (and ground symbols on
\* the ground net).
DividerSolved ==
    /\ Solved
    /\ {comps[i].id : i \in 1..Len(comps)} \ {"GND1"} = {"V1", "R1", "R2"}
    /\ \A i \in 1..Len(comps) :
          \/ IsDividerPart(comps[i])
          \/ comps[i].type = "ground" /\ comps[i].connections["gnd"] = ground_name

\* C3 as stated: the divider gives V(n1) = 6 V and a source current of
\* +1e-3 A.
C3_DividerAsStated ==
    DividerSolved =>
        /\ NEq(node_voltages["n1"], FromInt(6))
        /\ NEq(branch_currents["V1"], Frac(1, 1000))

\* C3: the divider gives V(n1) = 6 V and a source current of magnitude
\* 9/9000 = 1e-3 A, reported as -1e-3 A: the current of a voltage source is
\* the one flowing through it from pos to neg.
C3_Divider ==
    DividerSolved =>
        /\ NEq(node_voltages["n1"], FromInt(6))
        /\ NEq(branch_currents["V1"], Frac(-1, 1000))
        /\ NEq(NAbs(branch_currents["V1"]), NDiv(FromInt(9), FromInt(9000)))

C3_Witness ==
    /\ DividerSolved
    /\ caller = "node_voltage"
    /\ stages = <<"exact">>
    /\ "V1" \in DOMAIN branch_currents

\* The row of a voltage branch in the solution vector.
OwnRow(c) == Len(nodes) + (CHOOSE k \in 1..Len(vsrc_rows) : vsrc_rows[k].id = c.id)

StampedReference(c) ==
    StampReference(VsrcCandidates(comps), vsrc_rows, c,
                   IF c.type = "ccvs" THEN "_sense_ccvs_" ELSE "_sense_cccs_")

GainTimesReference(c, ref) ==
    NMul(NMul(c.parameters["gain"], ref.sign), x[Len(nodes) + ref.j])

\* C5: the current reported for a CCVS or CCCS is gain x the reference
\* current, the reference being the branch unknown (and orientation sign)
\* the source was stamped with.
C5_ControlledSourceCurrents ==
    Solved =>
        \A i \in 1..Len(comps) :
            comps[i].type \in {"ccvs", "cccs"} =>
                /\ comps[i].id \in DOMAIN branch_currents
                /\ NEq(branch_currents[comps[i].id],
                       GainTimesReference(comps[i], StampedReference(comps[i])))

C5_Witness ==
    /\ Solved
    /\ \E i \in 1..Len(comps) :
          /\ comps[i].type \in {"ccvs", "cccs"}
          /\ comps[i].id \in DOMAIN branch_currents
          /\ ~NIsZero(branch_currents[comps[i].id])

PortVoltage(nv, port) == NSub(Get(nv, port.port_pos), Get(nv, port.port_neg))

IsShort(c, port) ==
    /\ c.type = "resistor"
    /\ NEq(c.parameters["value"], Frac(1, 1000000))
    /\ c.connections = Two(port.port_pos, port.port_neg)

\* rth as the claim gives it from vth and isc.
RthAsClaimed(rth, vth, isc) ==
    /\ NLess(Milli(4), NAbs(isc)) => NEq(rth, NAbs(NDiv(vth, isc)))
    /\ NLeq(NAbs(isc), Milli(4)) => NEq(rth, NInv(Milli(4)))
    /\ NLeq(Zero, rth)

\* C6: compute_thevenin_equivalent solves the unmodified circuit and takes
\* vth = V(positive) - V(negative); then solves the circuit with one extra
\* 1e-6 ohm resistor from positive to negative, isc being the current through
\* it; it returns rth = |vth / isc| when |isc| > 1e-12 and 1e12 otherwise, so
\* rth >= 0 and an open port is no error.
C6_TheveninProcedure ==
    [][ /\ (pc = "compute_thevenin_equivalent" /\ pc' = "solve_by_node_voltage") =>
              comps' = payload.components
        /\ (pc = "return" /\ caller = "thevenin_open") =>
              /\ NEq(thevenin'.vth, PortVoltage(node_voltages, thevenin))
              /\ pc' = "solve_by_node_voltage"
              /\ Len(comps') = Len(payload.components) + 1
              /\ SubSeq(comps', 1, Len(payload.components)) = payload.components
              /\ IsShort(comps'[Len(comps')], thevenin)
        /\ (pc = "return" /\ caller = "thevenin_short") =>
              /\ response'.status = "ok"
              /\ NEq(response'.data.vth, thevenin.vth)
              /\ NEq(branch_currents[comps[Len(comps)].id],
                     NMul(PortVoltage(node_voltages, thevenin), FromInt(1000000)))
              /\ RthAsClaimed(response'.data.rth, thevenin.vth,
                              branch_currents[comps[Len(comps)].id])
      ]_vars

C6_Witness ==
    /\ pc = "done"
    /\ thevenin.phase = "done"
    /\ response.status = "ok"
    /\ NLess(thevenin.isc, NNeg(Milli(4)))
    /\ NEq(response.data.rth, NAbs(NDiv(thevenin.vth, thevenin.isc)))
    /\ ~NEq(response.data.rth, NInv(Milli(4)))

\* The request is the 9 V divider on a declared "gnd" net.
DividerRequested ==
    /\ {payload.components[i].id : i \in 1..Len(payload.components)} = {"V1", "R1", "R2"}
    /\ DeclaredGnd(payload.nets)

\* C7: a Thevenin request whose port names only the positive net is analysed
\* against the ground net and returns a vth / rth result.
C7_NegativeDefaultsToGround ==
    ( /\ pc = "done"
      /\ payload.method = "thevenin"
      /\ payload.thevenin_port # << >>
      /\ DividerRequested ) =>
        \/ DOMAIN payload.thevenin_port[1] # {"positive"}
        \/ /\ response.status = "ok"
           /\ {"vth", "rth"} \subseteq DOMAIN response.data

PastGround == pc \in {"build", "solve", "ridge", "pinv", "extract", "return"}

DeclaredNames == {payload.nets[i].name : i \in 1..Len(payload.nets)}

\* C8: the ground net is the net named "gnd" whenever one is declared, else
\* the net the ground component's gnd terminal is on; with neither the solve
\* fails with ValidationError and yields nothing.  Every solve that goes on
\* leaves exactly one declared net out of the unknowns.
C8_GroundIdentification ==
    /\ PastGround =>
          /\ DeclaredGnd(payload.nets) => ground_name = "gnd"
          /\ ~DeclaredGnd(payload.nets) =>
                \E i \in 1..Len(comps) :
                    comps[i].type = "ground" /\ comps[i].connections["gnd"] = ground_name
          /\ Range(nodes) = DeclaredNames \ {ground_name}
          /\ Cardinality(DeclaredNames) = Len(nodes) + 1
    /\ ( /\ caller # Nothing
         /\ pc # "solve_by_node_voltage"
         /\ is_resistive_circuit(comps)
         /\ ~DeclaredGnd(payload.nets)
         /\ ~\E i \in 1..Len(comps) : comps[i].type = "ground" ) =>
          /\ err.kind = "ValidationError"
          /\ pc \in {"catch", "done"}
          /\ response.status # "ok"
          /\ node_voltages = EmptyMap

\* A solve whose ground is the net of a ground component.
C8_Witness ==
    /\ Solved
    /\ ground_name = "n0"
    /\ Len(nodes) >= 2

GroundCandidates ==
    GroundNets(comps) \cup (IF DeclaredGnd(payload.nets) THEN {"gnd"} ELSE {})

\* C9: solve_by_node_voltage fails with ValidationError whenever the ground
\* candidates (the net named "gnd" and the nets of the ground components) are
\* not all one net.
C9_DisagreeingGroundsRejected ==
    /\ PastGround => Cardinality(GroundCandidates) <= 1
    /\ ( /\ caller # Nothing
         /\ pc # "solve_by_node_voltage"
         /\ is_resistive_circuit(comps)
         /\ Cardinality(GroundCandidates) > 1 ) =>
          err.kind = "ValidationError"

\* C10: a DC request with a net of fewer than 2 members is rejected with an
\* error and returns no node voltages.
C10_ShortNetsRejected ==
    ( /\ pc = "done"
      /\ method \in {"node_voltage", "branch_current", "mesh_current", "thevenin"}
      /\ \E i \in 1..Len(payload.nets) : Len(payload.nets[i].nodes) < 2 ) =>
        /\ response.status = "error"
        /\ node_voltages = EmptyMap

\* The solve got as far as the stamps: its ground was identified.
ReachedStamps == caller # Nothing /\ ground_name # Nothing

\* C11: in the DC path a component without a parameter its stamp reads makes
\* the request end with an error reply whose data names that component and
\* the missing key.
C11_MissingParameterReported ==
    ( /\ pc = "done"
      /\ method \in DcMethods
      /\ ReachedStamps
      /\ LacksParameter(comps) ) =>
        /\ response.status = "error"
        /\ \E i \in 1..Len(comps) :
              \E k \in Range(MissingParams(comps[i])) :
                  response.data = [component |-> comps[i].id, parameter |-> k]

\* The nets named by a terminal of the request's components, or by its
\* Thevenin port, that the nets list does not declare.
UndeclaredNets ==
    ( UNION {{payload.components[i].connections[h] :
                 h \in DOMAIN payload.components[i].connections} :
             i \in 1..Len(payload.components)}
      \cup (IF thevenin.phase # "none" THEN {thevenin.port_pos, thevenin.port_neg} ELSE {}) )
    \ DeclaredNames

\* The components with a terminal on an undeclared net.
UndeclaredUsers ==
    {payload.components[i].id :
        i \in {k \in 1..Len(payload.components) :
                  \E h \in DOMAIN payload.components[k].connections :
                      payload.components[k].connections[h] \in UndeclaredNets}}

\* C12: a DC request that got to the stamps and names an undeclared net, at
\* a terminal or in the Thevenin port, ends with a validation error whose
\* data carries the net name or the component id.
C12_UndeclaredNetReported ==
    ( /\ pc = "done"
      /\ method \in DcMethods
      /\ ReachedStamps
      /\ UndeclaredNets # {} ) =>
        /\ response.status = "error"
        /\ err.kind = "ValidationError"
        /\ \/ /\ "net" \in DOMAIN response.data
              /\ response.data["net"] \in UndeclaredNets
           \/ /\ "component" \in DOMAIN response.data
              /\ response.data["component"] \in UndeclaredUsers

\* The multiset of component types of a request.
TypeBag(components) ==
    [t \in {components[i].type : i \in 1..Len(components)} |->
        Cardinality({i \in 1..Len(components) : components[i].type = t})]

Eligibility == {MsgNodeOnly, MsgBranchOnly, MsgMeshOnly, MsgTheveninOnly}

Rejected == ~is_resistive_circuit(payload.components)

\* The transient path was entered.
InTransient ==
    \/ pc \in {"simulate_payload", "simulate_payload_modia"}
    \/ metrics.simulate_calls > 0

\* No solve got past its classifier check, and no transient simulation ran.
NoMatrixNoTransient ==
    /\ pc \notin {"build", "solve", "ridge", "pinv", "extract", "return"}
    /\ ground_name = Nothing
    /\ A = << >>
    /\ ~InTransient

\* Without a method the node-voltage solver runs for the accepted circuits
\* and the transient path for the others.
AutoRouted ==
    (payload.method = Nothing /\ pc # "run_simulation") =>
        IF Rejected
        THEN method = "transient" /\ caller = Nothing /\ InTransient
        ELSE method = "node_voltage" /\ caller = "node_voltage" /\ ~InTransient

PortIncomplete ==
    \/ payload.thevenin_port = << >>
    \/ ~({"positive", "negative"} \subseteq DOMAIN payload.thevenin_port[1])

\* C14 as stated: every explicit DC request on a rejected circuit ends with
\* the eligibility error.
C14_RoutingAsStated ==
    /\ AutoRouted
    /\ (payload.method \in DcMethods /\ Rejected) =>
          /\ NoMatrixNoTransient
          /\ pc = "done" =>
                /\ response.status = "error"
                /\ response.message \in Eligibility

\* C14: without a method the node-voltage solver is used iff the classifier
\* accepts the circuit, the transient path otherwise.  An explicit DC method
\* on a rejected circuit ends with an error, builds no MNA matrix and never
\* runs the transient simulation; the error is the eligibility error of the
\* method, except that a thevenin request with a missing or incomplete port
\* is rejected for its port before the classifier is consulted.
C14_Routing ==
    /\ AutoRouted
    /\ (payload.method \in DcMethods /\ Rejected) =>
          /\ NoMatrixNoTransient
          /\ pc = "done" =>
                /\ response.status = "error"
                /\ IF payload.method = "thevenin" /\ PortIncomplete
                   THEN response.message \in {MsgNeedPort, MsgInternal}
                   ELSE response.message \in Eligibility

\* A branch-current request on a circuit with a capacitor, answered.
C14_Witness ==
    /\ pc = "done"
    /\ payload.method = "branch_current"
    /\ Rejected
    /\ response.message = MsgBranchOnly

\* The reply of a returned call is an envelope with status, message and
\* data; it repeats the message and data of a ValidationError and says
\* "internal error" for any other exception.
Envelope ==
    pc = "done" =>
        /\ {"status", "message", "data"} \subseteq DOMAIN response
        /\ response.status \in {"ok", "error"}
        /\ (response.status = "ok") <=> (err.kind = "none")
        /\ err.kind = "ValidationError" =>
              /\ response.message = err.message
              /\ response.data = err.data
        /\ err.kind \notin {"none", "ValidationError"} =>
              response.message = "internal error"

\* An exception raised anywhere is on its way to the catch block or reported.
Caught == err.kind # "none" => pc \in {"catch", "done"}

\* Every position short of the return has its step: the solve returns to one
\* of its five callers, and nothing is raised outside the try block.
Positioned ==
    /\ pc \in {"run_simulation", "solve_by_node_voltage", "build", "solve", "ridge",
               "pinv", "extract", "return", "solve_by_branch_current",
               "solve_by_mesh_current", "compute_thevenin_equivalent",
               "simulate_payload", "simulate_payload_modia", "catch", "done"}
    /\ pc = "return" =>
          caller \in {"node_voltage", "branch_current", "mesh_current",
                      "thevenin_open", "thevenin_short"}
    /\ pc # "done" => response = NoResponse

\* C15: run_simulation never propagates an exception: whatever is raised
\* below is caught, and what is returned is an envelope with keys status,
\* message and data: status "ok", or status "error" with exactly the message
\* and data of the ValidationError raised, or with message "internal error"
\* for any other exception.
C15_AlwaysAnEnvelope == Envelope /\ Caught /\ Positioned

\* An exception other than ValidationError reported as an internal error.
C15_Witness ==
    /\ pc = "done"
    /\ err.kind = "KeyError"
    /\ response.message = "internal error"

NoGroundComponent ==
    \A i \in 1..Len(payload.components) : payload.components[i].type # "ground"

\* C16: a request without a ground component is answered with status error
\* and a message that contains the word "ground".
C16_NoGroundComponentRejected ==
    (pc = "done" /\ NoGroundComponent) =>
        /\ response.status = "error"
        /\ occursin("ground", response.message)

\* C17: a DC request sent twice is answered twice with the same node
\* voltages, branch currents, vth and rth and the same reply, whatever other
\* requests did to the metrics and the cache in between or meanwhile; and no
\* step of the DC path changes the metrics or the cache.
C17_DcSolveIsPure ==
    /\ [](( pc = "done" /\ earlier.run = 1 ) =>
            /\ node_voltages = earlier.node_voltages
            /\ branch_currents = earlier.branch_currents
            /\ thevenin = earlier.thevenin
            /\ response = earlier.response)
    /\ [][pc' # pc => UNCHANGED Shared]_vars

\* The second Thevenin answer for the divider, after two other requests of
\* which one filled the cache and one found its entry there.
C17_Witness ==
    /\ pc = "done"
    /\ earlier.run = 1
    /\ response.status = "ok"
    /\ "rth" \in DOMAIN thevenin
    /\ metrics.simplify_hits = 1
    /\ metrics.simplify_misses = 1

SuppliedIds == {comps[i].id : i \in 1..Len(comps)}

\* C18: the keys of the branch_currents map a solve returns are ids of the
\* components it was given; no id of a synthesized sensing branch is among
\* them, and every independent voltage source, VCVS and CCVS it was given
\* has its entry.
C18_BranchCurrentKeys ==
    Solved =>
        /\ DOMAIN branch_currents \subseteq SuppliedIds
        /\ \A k \in 1..Len(vsrc_rows) :
              vsrc_rows[k].id \notin SuppliedIds =>
                  vsrc_rows[k].id \notin DOMAIN branch_currents
        /\ \A i \in 1..Len(comps) :
              comps[i].type \in {"vsource_dc", "vcvs", "ccvs"} =>
                  comps[i].id \in DOMAIN branch_currents

\* C19: the node_voltages of a completed solve hold the ground net at 0 under
\* its own name and under "gnd", and every other declared net under its own
\* name with its unknown of the solution vector, the unknowns being the
\* declared nets other than the ground in sorted order; "gnd" is never one
\* of those other nets.
C19_NodeVoltageMap ==
    Solved =>
        /\ {"gnd", ground_name} \subseteq DOMAIN node_voltages
        /\ NIsZero(node_voltages["gnd"])
        /\ NIsZero(node_voltages[ground_name])
        /\ Range(nodes) = DeclaredNames \ {ground_name}
        /\ \A i, j \in 1..Len(nodes) : i < j => nodes[i] # nodes[j]
        /\ \A i \in 1..Len(nodes) :
              /\ nodes[i] \in DOMAIN node_voltages
              /\ node_voltages[nodes[i]] = x[i]
        /\ "gnd" \notin Range(nodes)
        /\ DOMAIN node_voltages = DeclaredNames \cup {"gnd", ground_name}

\* A solve whose ground net is n0: the map has n0 and gnd at 0 beside a net
\* at another voltage.
C19_Witness ==
    /\ Solved
    /\ ground_name = "n0"
    /\ DeclaredNames = {"a", "n0", "n1"}
    /\ DOMAIN node_voltages = {"a", "gnd", "n0", "n1"}
    /\ ~NIsZero(node_voltages["n1"])

\* ---------------------------------------------------------------------------
\* The web editor: buildSimulationPayload turns the canvas into the request.
\* ---------------------------------------------------------------------------

\* circuitComponentLibrary: the handles and the parameters of each type the
\* editor knows; min is <<m>> where the library gives a minimum, << >> where
\* it gives none.
circuitComponentLibrary ==
    [resistor      |-> [handles |-> <<"p", "n">>,
                        parameters |-> << [key |-> "value", min |-> <<0>>] >>],
     capacitor     |-> [handles |-> <<"p", "n">>,
                        parameters |-> << [key |-> "value", min |-> <<0>>] >>],
     inductor      |-> [handles |-> <<"p", "n">>,
                        parameters |-> << [key |-> "value", min |-> <<0>>] >>],
     vsource_dc    |-> [handles |-> <<"pos", "neg">>,
                        parameters |-> << [key |-> "dc", min |-> << >>] >>],
     vsource_ac    |-> [handles |-> <<"pos", "neg">>,
                        parameters |-> << [key |-> "amplitude", min |-> <<0>>],
                                          [key |-> "frequency", min |-> <<0>>] >>],
     ground        |-> [handles |-> <<"gnd">>, parameters |-> << >>],
     voltage_probe |-> [handles |-> <<"node">>, parameters |-> << >>],
     current_probe |-> [handles |-> <<"p", "n">>, parameters |-> << >>]]

\* `${nodeId}:${handleId}` and its split(':'): ids are a prefix and a number
\* (utils/id.ts), so the two parts come back as they went in.
handleKey(nodeId, handleId) == <<nodeId, handleId>>

\* An edge the editor holds with both of its handles.
HasHandles(edge) == edge.sourceHandle # "" /\ edge.targetHandle # ""

\* new DisjointSet(): no keys, no parents, no ranks.
DisjointSetNew == [keys |-> << >>, parent |-> [k \in {} |-> <<>>], rank |-> [k \in {} |-> 0]]

\* DisjointSet.add: a value not yet known becomes its own parent with rank 0;
\* keys is the order of insertion into the parent map.
DisjointSetAdd(ds, v) ==
    IF v \in DOMAIN ds.parent THEN ds
    ELSE [keys |-> Append(ds.keys, v),
          parent |-> [k \in DOMAIN ds.parent \cup {v} |-> IF k = v THEN v ELSE ds.parent[k]],
          rank |-> [k \in DOMAIN ds.rank \cup {v} |-> IF k = v THEN 0 ELSE ds.rank[k]]]

\* What find(v) returns: the end of the chain of parents.
RECURSIVE DisjointSetRoot(_, _)
DisjointSetRoot(parent, v) ==
    IF v \notin DOMAIN parent \/ parent[v] = v THEN v
    ELSE DisjointSetRoot(parent, parent[v])

\* The values find(v) passes through before the root.
RECURSIVE DisjointSetPath(_, _)
DisjointSetPath(parent, v) ==
    IF v \notin DOMAIN parent \/ parent[v] = v THEN {}
    ELSE {v} \cup DisjointSetPath(parent, parent[v])

\* The set after find(v): every value on the way has the root as parent.
DisjointSetFind(ds, v) ==
    [ds EXCEPT !.parent = [k \in DOMAIN ds.parent |->
                              IF k \in DisjointSetPath(ds.parent, v)
                              THEN DisjointSetRoot(ds.parent, v) ELSE ds.parent[k]]]

\* A link that leaves two roots of equal rank apart.
DisjointSetLinkUnlessTie(ds, rootA, rootB) ==
    IF rootA = rootB THEN ds
    ELSE IF ds.rank[rootA] < ds.rank[rootB]
         THEN [ds EXCEPT !.parent[rootA] = rootB]
    ELSE IF ds.rank[rootA] > ds.rank[rootB]
         THEN [ds EXCEPT !.parent[rootB] = rootA]
    ELSE [ds EXCEPT !.rank[rootA] = @ + 1]

\* The end of union: the root of lower rank goes under the other; of two
\* equal ranks rootB goes under rootA, whose rank grows.
DisjointSetLink(ds, rootA, rootB) ==
    IF rootA = rootB THEN ds
    ELSE IF ds.rank[rootA] < ds.rank[rootB]
         THEN [ds EXCEPT !.parent[rootA] = rootB]
    ELSE IF ds.rank[rootA] > ds.rank[rootB]
         THEN [ds EXCEPT !.parent[rootB] = rootA]
    ELSE [ds EXCEPT !.parent[rootB] = rootA, !.rank[rootA] = @ + 1]

\* DisjointSet.union: find of the one, find of the other, then the link of
\* the roots.
DisjointSetUnion(ds, one, other) ==
    DisjointSetLink(DisjointSetFind(DisjointSetFind(ds, one), other),
                    DisjointSetRoot(ds.parent, one), DisjointSetRoot(ds.parent, other))

\* The disjoint set after the loop over the edges: add, add, union for each
\* edge that has both handles.
RECURSIVE DisjointSetOfEdges(_, _, _)
DisjointSetOfEdges(edges, i, ds) ==
    IF i > Len(edges) THEN ds
    ELSE IF ~HasHandles(edges[i]) THEN DisjointSetOfEdges(edges, i + 1, ds)
    ELSE DisjointSetOfEdges(edges, i + 1,
            DisjointSetUnion(
                DisjointSetAdd(
                    DisjointSetAdd(ds, handleKey(edges[i].source, edges[i].sourceHandle)),
                    handleKey(edges[i].target, edges[i].targetHandle)),
                handleKey(edges[i].source, edges[i].sourceHandle),
                handleKey(edges[i].target, edges[i].targetHandle)))

\* result.get(root): push the key to its group, or start a group with it.
GroupsWith(acc, root, key) ==
    IF \E g \in 1..Len(acc) : acc[g].root = root
    THEN [g \in 1..Len(acc) |->
             IF acc[g].root = root
             THEN [acc[g] EXCEPT !.members = Append(@, key)] ELSE acc[g]]
    ELSE Append(acc, [root |-> root, members |-> <<key>>])

\* DisjointSet.groups: the keys in the order of insertion, each under the
\* root find returns for it; a Map keeps the roots in the order they came.
RECURSIVE DisjointSetGroups(_, _, _)
DisjointSetGroups(ds, i, acc) ==
    IF i > Len(ds.keys) THEN acc
    ELSE DisjointSetGroups(DisjointSetFind(ds, ds.keys[i]), i + 1,
            GroupsWith(acc, DisjointSetRoot(ds.parent, ds.keys[i]), ds.keys[i]))

\* nodeMap.get(nodeId): a later node with an id replaces an earlier one.
InNodeMap(ns, id) == \E i \in 1..Len(ns) : ns[i].id = id

NodeMapGet(ns, id) ==
    ns[CHOOSE i \in 1..Len(ns) :
          /\ ns[i].id = id
          /\ \A j \in 1..Len(ns) : ns[j].id = id => j <= i]

\* What the loop over a group's keys says about one key; "" when it
\* becomes a member.
MemberError(ns, k) ==
    IF ~InNodeMap(ns, k[1]) THEN "edge to a missing component"
    ELSE IF NodeMapGet(ns, k[1]).type \notin DOMAIN circuitComponentLibrary
         THEN "edge to an unknown component type"
    ELSE IF k[2] \notin Range(circuitComponentLibrary[NodeMapGet(ns, k[1]).type].handles)
         THEN "no such handle"
    ELSE ""

GroupMembers(ns, group) == SelectSeq(group, LAMBDA k : MemberError(ns, k) = "")

RECURSIVE GroupErrors(_, _, _)
GroupErrors(ns, group, i) ==
    IF i > Len(group) THEN << >>
    ELSE IF MemberError(ns, group[i]) = "" THEN GroupErrors(ns, group, i + 1)
    ELSE <<MemberError(ns, group[i])>> \o GroupErrors(ns, group, i + 1)

GroupHasGround(ns, members) ==
    \E i \in 1..Len(members) : NodeMapGet(ns, members[i][1]).type = "ground"

\* nets.push and handleNetMap.set for a named group.
NamedNet(st, name, members) ==
    [st EXCEPT !.nets = Append(@, [name |-> name, nodes |-> members]),
               !.handleNetMap = [k \in DOMAIN @ \cup Range(members) |->
                                    IF k \in Range(members) THEN name ELSE @[k]]]

NumberedNet(st, members) ==
    [NamedNet(st, "n" \o ToString(st.netIndex), members) EXCEPT !.netIndex = @ + 1]

Pushed(st, errors) == [st EXCEPT !.errors = @ \o errors]

\* A group that names the ground net although one is named already: the
\* second name goes unreported.
NetOfGroupRenamingGround(ns, st, members) ==
    IF Len(members) < 2
    THEN Pushed(st, <<"net with fewer than two terminals">>)
    ELSE IF GroupHasGround(ns, members)
    THEN [NamedNet(st, "gnd", members) EXCEPT !.gndAssigned = TRUE]
    ELSE NumberedNet(st, members)

\* The body of the loop over the groups once the members are known.
NetOfGroup(ns, st, members) ==
    IF Len(members) < 2
    THEN Pushed(st, <<"net with fewer than two terminals">>)
    ELSE IF GroupHasGround(ns, members) /\ ~st.gndAssigned
    THEN [NamedNet(st, "gnd", members) EXCEPT !.gndAssigned = TRUE]
    ELSE IF GroupHasGround(ns, members)
    THEN NumberedNet(Pushed(st, <<"several ground nets">>), members)
    ELSE NumberedNet(st, members)

RECURSIVE NetsOfGroups(_, _, _, _)
NetsOfGroups(ns, groups, i, st) ==
    IF i > Len(groups) THEN st
    ELSE NetsOfGroups(ns, groups, i + 1,
            NetOfGroup(ns, Pushed(st, GroupErrors(ns, groups[i].members, 1)),
                       GroupMembers(ns, groups[i].members)))

\* The errors of the loop over the edges.
RECURSIVE EdgeErrors(_, _)
EdgeErrors(edges, i) ==
    IF i > Len(edges) THEN << >>
    ELSE IF HasHandles(edges[i]) THEN EdgeErrors(edges, i + 1)
    ELSE <<"edge without a handle">> \o EdgeErrors(edges, i + 1)

buildNets(ns, edges) ==
    NetsOfGroups(ns,
        DisjointSetGroups(DisjointSetOfEdges(edges, 1, DisjointSetNew), 1, << >>),
        1,
        [nets |-> << >>, handleNetMap |-> [k \in {} |-> ""],
         errors |-> EdgeErrors(edges, 1), netIndex |-> 1, gndAssigned |-> FALSE])

\* isResistiveCircuit of the editor: every node's type is in the list.
WebResistiveTypes ==
    {"resistor", "vsource_dc", "isource_dc", "ground", "voltage_probe",
     "current_probe", "switch", "vccs", "vcvs"}

isResistiveCircuit(ns) == \A i \in 1..Len(ns) : ns[i].type \in WebResistiveTypes

getDefaultAnalysisMethod(ns) ==
    IF isResistiveCircuit(ns) THEN "node_voltage" ELSE "transient"

\* mapHandleWithRotation: a two-terminal part turned by 180 degrees swaps
\* its terminals.
SwappedTypes ==
    {"resistor", "capacitor", "inductor", "vsource_dc", "vsource_ac",
     "isource_dc", "isource_ac", "current_probe", "switch",
     "vcvs", "ccvs", "vccs", "cccs"}

SwapHandle(handleId) ==
    CASE handleId = "p" -> "n"
      [] handleId = "n" -> "p"
      [] handleId = "pos" -> "neg"
      [] handleId = "neg" -> "pos"
      [] handleId = "ctrl_p" -> "ctrl_n"
      [] handleId = "ctrl_n" -> "ctrl_p"
      [] OTHER -> handleId

mapHandleWithRotation(handleId, componentType, rotation) ==
    IF componentType \in SwappedTypes /\ ((rotation % 360) + 360) % 360 = 180
    THEN SwapHandle(handleId)
    ELSE handleId

\* The types that count as a source.
WebSourceTypes ==
    {"vsource_dc", "vsource_ac", "isource_dc", "isource_ac",
     "vcvs", "ccvs", "vccs", "cccs"}

\* ensureFiniteNumber(value) and the minimum: a parameter the node does not
\* hold is undefined.
ValidParameter(n, parameter) ==
    /\ parameter.key \in DOMAIN n.parameters
    /\ \A i \in 1..Len(parameter.min) : n.parameters[parameter.key] >= parameter.min[i]

RECURSIVE ParameterErrors(_, _, _)
ParameterErrors(n, parameters, i) ==
    IF i > Len(parameters) THEN << >>
    ELSE IF ValidParameter(n, parameters[i]) THEN ParameterErrors(n, parameters, i + 1)
    ELSE <<"invalid parameter">> \o ParameterErrors(n, parameters, i + 1)

RECURSIVE HandleErrors(_, _, _, _)
HandleErrors(n, handles, i, handleNetMap) ==
    IF i > Len(handles) THEN << >>
    ELSE IF handleKey(n.id, handles[i]) \in DOMAIN handleNetMap
         THEN HandleErrors(n, handles, i + 1, handleNetMap)
    ELSE <<"terminal not connected">> \o HandleErrors(n, handles, i + 1, handleNetMap)

\* The parameters that passed.
WebParameters(n, parameters) ==
    [k \in {parameters[i].key : i \in {j \in 1..Len(parameters) :
                                          ValidParameter(n, parameters[j])}} |->
        n.parameters[k]]

\* node.data.rotation ?? 0: a node that was never rotated holds no rotation.
RotationOf(n) == IF "rotation" \in DOMAIN n THEN n.rotation ELSE 0

\* connections[logicalHandleId] = netName, in the order of the handles.
RECURSIVE WebConnections(_, _, _, _, _)
WebConnections(n, handles, i, handleNetMap, acc) ==
    IF i > Len(handles) THEN acc
    ELSE IF handleKey(n.id, handles[i]) \notin DOMAIN handleNetMap
         THEN WebConnections(n, handles, i + 1, handleNetMap, acc)
    ELSE WebConnections(n, handles, i + 1, handleNetMap,
            [k \in DOMAIN acc \cup {mapHandleWithRotation(handles[i], n.type, RotationOf(n))} |->
                IF k = mapHandleWithRotation(handles[i], n.type, RotationOf(n))
                THEN handleNetMap[handleKey(n.id, handles[i])]
                ELSE acc[k]])

\* components.push for a node of a known type: a switch goes out as a
\* resistor of 1e-6 (closed) or 1e9 (open) ohms.
WebComponent(n, definition, handleNetMap) ==
    IF n.type = "switch"
    THEN [id |-> n.id, type |-> "resistor",
          parameters |-> [value |-> IF "state" \in DOMAIN WebParameters(n, definition.parameters)
                                       /\ WebParameters(n, definition.parameters)["state"] = 1
                                    THEN "1e-6" ELSE "1e9"],
          connections |-> WebConnections(n, definition.handles, 1, handleNetMap,
                                         [k \in {} |-> ""])]
    ELSE [id |-> n.id, type |-> n.type,
          parameters |-> WebParameters(n, definition.parameters),
          connections |-> WebConnections(n, definition.handles, 1, handleNetMap,
                                         [k \in {} |-> ""])]

Known(n) == n.type \in DOMAIN circuitComponentLibrary

\* The loop over the nodes: the components and the errors it pushes.
RECURSIVE WebComponents(_, _, _)
WebComponents(ns, i, handleNetMap) ==
    IF i > Len(ns) THEN << >>
    ELSE IF ~Known(ns[i]) THEN WebComponents(ns, i + 1, handleNetMap)
    ELSE <<WebComponent(ns[i], circuitComponentLibrary[ns[i].type], handleNetMap)>>
         \o WebComponents(ns, i + 1, handleNetMap)

RECURSIVE NodeErrors(_, _, _)
NodeErrors(ns, i, handleNetMap) ==
    IF i > Len(ns) THEN << >>
    ELSE IF ~Known(ns[i])
         THEN <<"unknown component type">> \o NodeErrors(ns, i + 1, handleNetMap)
    ELSE ParameterErrors(ns[i], circuitComponentLibrary[ns[i].type].parameters, 1)
         \o HandleErrors(ns[i], circuitComponentLibrary[ns[i].type].handles, 1, handleNetMap)
         \o NodeErrors(ns, i + 1, handleNetMap)

SettingsErrors(settings) ==
    (IF ~(settings.tStop > 0) THEN <<"tStop must be positive">> ELSE << >>)
    \o (IF settings.nSamples < 2 THEN <<"nSamples must be an integer of 2 or more">>
        ELSE << >>)

\* connectedNodes: the ends of every edge, handles or not.
ConnectedNodes(edges) ==
    {edges[i].source : i \in 1..Len(edges)} \cup {edges[i].target : i \in 1..Len(edges)}

DisconnectedErrors(ns, edges) ==
    IF \E i \in 1..Len(ns) : ns[i].type # "ground" /\ ns[i].id \notin ConnectedNodes(edges)
    THEN <<"disconnected components">> ELSE << >>

WebHasGround(ns) == \E i \in 1..Len(ns) : Known(ns[i]) /\ ns[i].type = "ground"

WebHasSource(ns) == \E i \in 1..Len(ns) : Known(ns[i]) /\ ns[i].type \in WebSourceTypes

HasTypeIn(ns, types) == \E i \in 1..Len(ns) : ns[i].type \in types

Diagnostics(ns, m) ==
    IF m # Nothing \/ ~WebHasSource(ns) THEN << >>
    ELSE IF HasTypeIn(ns, {"capacitor", "inductor", "vsource_ac", "isource_ac", "ccvs", "cccs"})
         THEN <<"transient analysis will be used">>
    ELSE IF isResistiveCircuit(ns) THEN <<"a direct method may be chosen">>
    ELSE << >>

MethodErrors(ns, m) ==
    IF /\ m \in {"node_voltage", "branch_current", "mesh_current"}
       /\ (~isResistiveCircuit(ns) \/ HasTypeIn(ns, {"ccvs", "cccs"}))
    THEN <<"method needs a resistive circuit">> ELSE << >>

\* The error pushed when no node counts as a source: "the circuit must hold
\* at least one source", a colon, and the advice to add an independent or a
\* controlled source.
WebMsgNoSource ==
    "circuit must contain at least one source: add an independent or a controlled source"

\* The errors in the order they are pushed, given what buildNets returned.
WebErrors(ns, edges, settings, m, net) ==
    SettingsErrors(settings)
    \o DisconnectedErrors(ns, edges)
    \o net.errors
    \o NodeErrors(ns, 1, net.handleNetMap)
    \o (IF WebHasGround(ns) THEN << >> ELSE <<"no ground component">>)
    \o (IF WebHasSource(ns) THEN << >> ELSE <<WebMsgNoSource>>)
    \o MethodErrors(ns, m)

Refused(errors, diagnostics) ==
    [ok |-> FALSE, errors |-> errors, diagnostics |-> diagnostics]

Finished(ns, settings, m, net, errors) ==
    IF Len(errors) > 0 THEN Refused(errors, Diagnostics(ns, m))
    ELSE [ok |-> TRUE, errors |-> << >>, diagnostics |-> Diagnostics(ns, m),
          payload |-> [components |-> WebComponents(ns, 1, net.handleNetMap),
                       nets |-> net.nets,
                       sim |-> [t_stop |-> settings.tStop, n_samples |-> settings.nSamples],
                       method |-> IF m = Nothing THEN getDefaultAnalysisMethod(ns) ELSE m]]

WithNets(ns, edges, settings, m, net) ==
    Finished(ns, settings, m, net, WebErrors(ns, edges, settings, m, net))

buildSimulationPayload(ns, edges, settings, m) ==
    IF Len(ns) = 0
    THEN Refused(SettingsErrors(settings) \o <<"no components on the canvas">>, << >>)
    ELSE WithNets(ns, edges, settings, m, buildNets(ns, edges))

\* A node of the canvas.
CanvasNode(id, type, parameters, rotation) ==
    [id |-> id, type |-> type, parameters |-> parameters, rotation |-> rotation]

NoParameters == [k \in {} |-> 0]

\* The places of the canvas and what may stand at each; << >> leaves the
\* place empty.
NodeChoices ==
    << { << >>, <<CanvasNode("V1", "vsource_dc", [dc |-> 5], 0)>>,
                <<CanvasNode("I1", "isource_dc", [dc |-> 1], 0)>> },
       { << >>, <<CanvasNode("R1", "resistor", [value |-> 1000], 0)>>,
                <<CanvasNode("R1", "resistor", [value |-> 1000], 180)>>,
                <<CanvasNode("R1", "resistor", [value |-> 0 - 1], 0)>> },
       { << >>, <<CanvasNode("G1", "ground", NoParameters, 0)>> },
       { << >>, <<CanvasNode("G2", "ground", NoParameters, 0)>>,
                <<CanvasNode("C1", "capacitor", [value |-> 1], 0)>>,
                <<CanvasNode("D1", "diode", NoParameters, 0)>> } >>

CanvasEdge(id, source, sourceHandle, target, targetHandle) ==
    [id |-> id, source |-> source, sourceHandle |-> sourceHandle,
     target |-> target, targetHandle |-> targetHandle]

\* The edges a canvas may hold: wires between the parts, a wire from a
\* terminal to itself, one to a part that is gone, one without a handle
\* and one to a handle the part does not have.
EdgePool ==
    << CanvasEdge("e1", "V1", "pos", "R1", "p"),
       CanvasEdge("e2", "R1", "n", "G1", "gnd"),
       CanvasEdge("e3", "V1", "neg", "G1", "gnd"),
       CanvasEdge("e4", "G2", "gnd", "G1", "gnd"),
       CanvasEdge("e5", "V1", "neg", "G2", "gnd"),
       CanvasEdge("e6", "R1", "n", "G2", "gnd"),
       CanvasEdge("e7", "R1", "p", "R1", "p"),
       CanvasEdge("e8", "R1", "n", "X9", "p"),
       CanvasEdge("e9", "V1", "pos", "R1", ""),
       CanvasEdge("e10", "V1", "neg", "G1", "vcc") >>

\* The largest number of edges on a canvas.
MaxEdges == 4

RECURSIVE PoolEdges(_, _)
PoolEdges(S, i) ==
    IF i > Len(EdgePool) THEN << >>
    ELSE (IF i \in S THEN <<EdgePool[i]>> ELSE << >>) \o PoolEdges(S, i + 1)

CanvasSettings ==
    { [settings |-> [tStop |-> 1, nSamples |-> 100], method |-> Nothing],
      [settings |-> [tStop |-> 1, nSamples |-> 100], method |-> "node_voltage"],
      [settings |-> [tStop |-> 0, nSamples |-> 1], method |-> Nothing] }

Canvases ==
    { [nodes |-> a \o r \o g \o o, edges |-> PoolEdges(S, 1),
       settings |-> s.settings, method |-> s.method] :
         a \in NodeChoices[1], r \in NodeChoices[2], g \in NodeChoices[3],
         o \in NodeChoices[4],
         S \in {T \in SUBSET (1..Len(EdgePool)) : Cardinality(T) <= MaxEdges},
         s \in CanvasSettings }

EditorInit ==
    /\ pc = "editor"
    /\ payload = [components |-> << >>, nets |-> << >>]
    /\ Idle
    /\ canvas \in Canvases
    /\ built = NotBuilt
    /\ project = NoProject

\* The editor builds the request from its canvas.
BuildPayload ==
    /\ pc = "editor"
    /\ built' = buildSimulationPayload(canvas.nodes, canvas.edges,
                                       canvas.settings, canvas.method)
    /\ pc' = "built"
    /\ UNCHANGED <<payload, method, SolveLocals, Results, thevenin, err, response,
                   Shared, earlier, canvas, project>>

EditorNext == BuildPayload

EditorSpec == EditorInit /\ [][EditorNext]_vars

\* The type of the part a member of a net belongs to.
MemberType(member) == NodeMapGet(canvas.nodes, member[1]).type

\* C20: whenever buildSimulationPayload returns ok, every net of the
\* payload has at least two terminals, no two nets have the same name, and
\* exactly one net is named gnd: the net that holds a ground part's terminal.
C20_NetsOfAnOkPayload ==
    (pc = "built" /\ built.ok) =>
        /\ \A i \in 1..Len(built.payload.nets) :
              /\ Len(built.payload.nets[i].nodes) >= 2
              /\ Cardinality(Range(built.payload.nets[i].nodes)) >= 2
              /\ built.payload.nets[i].name = "gnd"
                    <=> \E m \in Range(built.payload.nets[i].nodes) :
                            MemberType(m) = "ground"
        /\ \A i, j \in 1..Len(built.payload.nets) :
              built.payload.nets[i].name = built.payload.nets[j].name => i = j
        /\ Cardinality({i \in 1..Len(built.payload.nets) :
                           built.payload.nets[i].name = "gnd"}) = 1

\* A source, a turned resistor and a ground wired into a loop: the payload
\* is built, with the net n1 and the ground net of three terminals.
C20_Witness ==
    /\ pc = "built"
    /\ built.ok
    /\ Len(built.payload.nets) = 2
    /\ built.payload.nets[1].name = "n1"
    /\ built.payload.nets[2] =
          [name |-> "gnd", nodes |-> <<<<"R1", "n">>, <<"G1", "gnd">>, <<"V1", "neg">>>>]
    /\ built.payload.components[2].connections = [n |-> "n1", p |-> "gnd"]

\* error.includes(text) on the errors of buildSimulationPayload: a text is
\* in itself, and the opening words of the missing-source error are in it;
\* the words "at least one voltage source" are in none of the errors.
includes(error, text) ==
    \/ error = text
    \/ text = "circuit must contain at least one source" /\ error = WebMsgNoSource

\* The text the editor's test looks for when no voltage source is placed.
ExpectedNoVoltageSource == "circuit must contain at least one voltage source"

NoVoltageSource ==
    \A i \in 1..Len(canvas.nodes) : canvas.nodes[i].type \notin {"vsource_dc", "vsource_ac"}

\* C21: built from a canvas without a vsource_dc and without a vsource_ac,
\* the result is not ok and one of its errors is the missing-voltage-source
\* error; so a payload is produced only when a voltage source is placed.
C21_NoVoltageSourceRefused ==
    (pc = "built" /\ NoVoltageSource) =>
        /\ ~built.ok
        /\ \E i \in 1..Len(built.errors) : includes(built.errors[i], ExpectedNoVoltageSource)

\* The voltage-defining branches of the request that lie between the control
\* nets of c, in either orientation.
ControlCandidates(c) ==
    {i \in 1..Len(VsrcCandidates(comps)) :
        Between(VsrcCandidates(comps)[i], c.connections["ctrl_p"], c.connections["ctrl_n"])}

SenseId(c) == (IF c.type = "ccvs" THEN "_sense_ccvs_" ELSE "_sense_cccs_") \o c.id

\* A zero-volt source of c's own between its control nets is among the rows.
HasPrivateSense(c) ==
    \E k \in 1..Len(vsrc_rows) :
        /\ k > Len(VsrcCandidates(comps))
        /\ vsrc_rows[k] = Comp(SenseId(c), "vsource_dc", [dc |-> Zero],
                               Src(c.connections["ctrl_p"], c.connections["ctrl_n"]))

\* C22: once the rows are laid out, a CCVS or CCCS with exactly one voltage
\* branch between its control nets is stamped with that branch's unknown
\* and has no sensing branch; with none or with two or more it has a
\* private zero-volt sensing branch and is stamped with that one's unknown.
C22_ReferenceSelection ==
    pc = "solve" =>
        \A i \in 1..Len(comps) :
            comps[i].type \in {"ccvs", "cccs"} =>
                IF Cardinality(ControlCandidates(comps[i])) = 1
                THEN /\ ~HasKey(vsrc_rows, SenseId(comps[i]))
                     /\ StampedReference(comps[i]).j \in ControlCandidates(comps[i])
                ELSE /\ HasPrivateSense(comps[i])
                     /\ StampedReference(comps[i]).j = VsrcIndex(vsrc_rows, SenseId(comps[i]))

\* The rows that connect the same unordered pair of nets as row k, k among
\* them.
PairOf(k) == {j \in 1..Len(vsrc_rows) : SamePair(vsrc_rows[j], vsrc_rows[k])}

\* Row j of the voltage branches has 1e-12 more on its diagonal than the
\* stamps M0 left there / has what the stamps left there.
Perturbed(M0, j) ==
    NEq(A[Len(nodes) + j][Len(nodes) + j],
        NAdd(M0[Len(nodes) + j][Len(nodes) + j], Ridge))

Unperturbed(M0, j) ==
    NEq(A[Len(nodes) + j][Len(nodes) + j], M0[Len(nodes) + j][Len(nodes) + j])

\* C23: in the matrix handed to the solver, of the k >= 2 voltage branches
\* on one unordered pair of nets exactly k - 1 have 1e-12 added to the
\* diagonal of their own row and exactly one has nothing added; a branch
\* alone on its pair has nothing added.
C23_DuplicateRegularization ==
    pc = "solve" =>
        \A M0 \in {Stamps(comps, ground_name, nodes, vsrc_rows, VsrcCandidates(comps))} :
            \A k \in 1..Len(vsrc_rows) :
                /\ Cardinality({j \in PairOf(k) : Perturbed(M0, j)}) = Cardinality(PairOf(k)) - 1
                /\ Cardinality({j \in PairOf(k) : Unperturbed(M0, j)}) = 1

\* Two sources and the sensing branch of a CCVS on the same pair of nets:
\* three rows, two of them perturbed.
C23_Witness ==
    /\ pc = "solve"
    /\ Len(vsrc_rows) = 4
    /\ Cardinality(PairOf(1)) = 3
    /\ DuplicateRows(vsrc_rows) = {2, 4}
    /\ NEq(A[Len(nodes) + 4][Len(nodes) + 4], Ridge)
    /\ NIsZero(A[Len(nodes) + 1][Len(nodes) + 1])

\* The index of a net among the unknowns; 0, the index of no unknown, for
\* the ground net.
IndexOrNone(net) == IF net = ground_name THEN 0 ELSE NodeIndex(nodes, net)

Delta(cond) == IF cond THEN 1 ELSE 0

\* The entries the statement lists for a source on row `row` between the
\* nets of index ip (positive) and iq (negative).
ListedEntry(i, j, row, ip, iq) ==
    FromInt(Delta(i = ip /\ j = row) - Delta(i = iq /\ j = row)
            + Delta(i = row /\ j = ip) - Delta(i = row /\ j = iq))

\* What the loop over vsrc_rows adds to the matrix for row k alone.
StampOf(k) ==
    StampConstraint(
        StampIncidence(ZeroMatrix(Len(nodes) + Len(vsrc_rows)), ground_name, nodes,
                       Len(nodes) + k,
                       vsrc_rows[k].connections["pos"], vsrc_rows[k].connections["neg"]),
        ground_name, nodes, Len(nodes) + k, vsrc_rows[k], vsrc_rows, VsrcCandidates(comps))

IsIndependentRow(k) ==
    /\ vsrc_rows[k].type = "vsource_dc"
    /\ \E i \in 1..Len(comps) : comps[i] = vsrc_rows[k]

\* C24: for every vsource_dc of the request, on row k between p and n with
\* value V: what its stamp adds to A is +1 at [p,k] and [k,p], -1 at [n,k]
\* and [k,n], without the entries of the ground net, and nothing else; its
\* own row of the matrix handed to the solver holds just these entries (and
\* the 1e-12 of a duplicate branch on its diagonal), and b[k] = V.
C24_VoltageSourceStamp ==
    pc = "solve" =>
        \A k \in 1..Len(vsrc_rows) :
            IsIndependentRow(k) =>
                /\ \A M1 \in {StampOf(k)} :
                      \A i, j \in 1..(Len(nodes) + Len(vsrc_rows)) :
                          NEq(M1[i][j],
                              ListedEntry(i, j, Len(nodes) + k,
                                          IndexOrNone(vsrc_rows[k].connections["pos"]),
                                          IndexOrNone(vsrc_rows[k].connections["neg"])))
                /\ \A j \in 1..(Len(nodes) + Len(vsrc_rows)) :
                      NEq(A[Len(nodes) + k][j],
                          NAdd(ListedEntry(Len(nodes) + k, j, Len(nodes) + k,
                                           IndexOrNone(vsrc_rows[k].connections["pos"]),
                                           IndexOrNone(vsrc_rows[k].connections["neg"])),
                               IF j = Len(nodes) + k /\ k \in DuplicateRows(vsrc_rows)
                               THEN Ridge ELSE Zero))
                /\ NEq(b[Len(nodes) + k], vsrc_rows[k].parameters["dc"])

\* A floating 9 V source: neither of its nets is the ground, and its row
\* holds +1 and -1.
C24_Witness ==
    /\ pc = "solve"
    /\ \E k \in 1..Len(vsrc_rows) :
          /\ IsIndependentRow(k)
          /\ vsrc_rows[k].connections["pos"] # ground_name
          /\ vsrc_rows[k].connections["neg"] # ground_name
          /\ NEq(A[Len(nodes) + k][IndexOrNone(vsrc_rows[k].connections["pos"])], One)
          /\ NEq(A[Len(nodes) + k][IndexOrNone(vsrc_rows[k].connections["neg"])], NNeg(One))
          /\ NEq(b[Len(nodes) + k], FromInt(9))

\* ---- buildNets on wires drawn in any order ----

\* A source, a resistor and a ground, and four of their terminals.
WiredNodes ==
    << CanvasNode("V1", "vsource_dc", [dc |-> 5], 0),
       CanvasNode("R1", "resistor", [value |-> 1000], 0),
       CanvasNode("G1", "ground", NoParameters, 0) >>

WiredTerminals ==
    { handleKey("V1", "pos"), handleKey("V1", "neg"), handleKey("R1", "p"),
      handleKey("G1", "gnd") }

\* The largest number of wires drawn.
MaxWires == 3

\* A wire from any terminal to any terminal, itself included.
Wires == {CanvasEdge("w", s[1], s[2], t[1], t[2]) : s \in WiredTerminals, t \in WiredTerminals}

WireSeqs == UNION {[1..n -> Wires] : n \in 0..MaxWires}

NetsInit ==
    /\ pc = "wired"
    /\ payload = [components |-> << >>, nets |-> << >>]
    /\ Idle
    /\ \E edges \in WireSeqs :
          canvas = [nodes |-> WiredNodes, edges |-> edges,
                    settings |-> [tStop |-> 1, nSamples |-> 100], method |-> Nothing]
    /\ built = NotBuilt
    /\ project = NoProject

\* buildNets on the canvas.
ResolveNets ==
    /\ pc = "wired"
    /\ built' = buildNets(canvas.nodes, canvas.edges)
    /\ pc' = "resolved"
    /\ UNCHANGED <<payload, method, SolveLocals, Results, thevenin, err, response,
                   Shared, earlier, canvas, project>>

NetsNext == ResolveNets

NetsSpec == NetsInit /\ [][NetsNext]_vars

\* The pairs of terminals the edges join.
EdgePairs(edges) ==
    { {handleKey(edges[i].source, edges[i].sourceHandle),
       handleKey(edges[i].target, edges[i].targetHandle)} :
         i \in {j \in 1..Len(edges) : HasHandles(edges[j])} }

ChainStep(S, pairs) == S \cup UNION {J \in pairs : J \cap S # {}}

\* The terminals a chain of edges links to one of S.
RECURSIVE ChainedTo(_, _)
ChainedTo(S, pairs) ==
    IF ChainStep(S, pairs) = S THEN S ELSE ChainedTo(ChainStep(S, pairs), pairs)

NetsHolding(t) == {i \in 1..Len(built.nets) : t \in Range(built.nets[i].nodes)}

\* C25: two terminals are members of the same emitted net exactly when a
\* chain of edges links them, and no terminal is a member of two nets or
\* twice a member of one, whatever the edges and their order.
C25_NetsAreConnectedComponents ==
    pc = "resolved" =>
        /\ \A t1, t2 \in WiredTerminals :
              t1 # t2 =>
                  (NetsHolding(t1) \cap NetsHolding(t2) # {}
                       <=> t2 \in ChainedTo({t1}, EdgePairs(canvas.edges)))
        /\ \A t \in WiredTerminals : Cardinality(NetsHolding(t)) <= 1
        /\ \A i \in 1..Len(built.nets) :
              Cardinality(Range(built.nets[i].nodes)) = Len(built.nets[i].nodes)

\* Two wires and a third that joins their far ends: one net of four
\* terminals, found through a parent of a parent.
C25_Witness ==
    /\ pc = "resolved"
    /\ canvas.edges = << CanvasEdge("w", "V1", "pos", "R1", "p"),
                         CanvasEdge("w", "G1", "gnd", "V1", "neg"),
                         CanvasEdge("w", "R1", "p", "V1", "neg") >>
    /\ Len(built.nets) = 1
    /\ built.nets[1].nodes = << <<"V1", "pos">>, <<"R1", "p">>, <<"G1", "gnd">>, <<"V1", "neg">> >>

\* C26: the reply of the branch-current and of the mesh-current method
\* holds the node voltages of solve_by_node_voltage and, for every resistor,
\* independent voltage source and independent current source, the branch
\* current solve_by_node_voltage returned.
C26_BranchMeshReuseNodeSolution ==
    (pc = "done" /\ caller \in {"branch_current", "mesh_current"}
                 /\ response.status = "ok") =>
        /\ response.data.node_voltages = node_voltages
        /\ \A i \in 1..Len(comps) :
              comps[i].type \in {"resistor", "vsource_dc", "isource_dc"} =>
                  /\ comps[i].id \in DOMAIN response.data.branch_currents
                  /\ comps[i].id \in DOMAIN branch_currents
                  /\ NEq(response.data.branch_currents[comps[i].id],
                         branch_currents[comps[i].id])

\* The terminal names of a component of the payload: those of its
\* connections and those the nets list for it.
TerminalNames(c) ==
    DOMAIN c.connections
    \cup UNION { {m[2] : m \in {t \in Range(built.payload.nets[i].nodes) : t[1] = c.id}} :
                   i \in 1..Len(built.payload.nets) }

\* C27: in a payload that was built, connections and nets describe the same
\* topology: a component's connections give net N for terminal h exactly
\* when the net named N lists the pair of the component's id and h.
C27_ConnectionsAgreeWithNets ==
    (pc = "built" /\ built.ok) =>
        \A k \in 1..Len(built.payload.components) :
            \A h \in TerminalNames(built.payload.components[k]) :
                \A i \in 1..Len(built.payload.nets) :
                    (/\ h \in DOMAIN built.payload.components[k].connections
                     /\ built.payload.components[k].connections[h] = built.payload.nets[i].name)
                    <=> <<built.payload.components[k].id, h>>
                            \in Range(built.payload.nets[i].nodes)

\* ---- Transient requests one after another on one server ----

\* The largest number of transient requests a server is sent.
MaxRequests == 3

\* An RC circuit and a divider, each with R1 of 3000 or of 1000 ohm, and a
\* lone resistor.
TransientCircuits ==
    { Circuit(Pick(<< Catalogue[1], [Catalogue[2] EXCEPT !.parameters = [value |-> r]],
                      other, Catalogue[4] >>, <<1, 2, 3, 4>>, "gnd")) :
          r \in {FromInt(3000), FromInt(1000)}, other \in {Catalogue[3], Catalogue[14]} }
    \cup { Circuit(Pick(Catalogue, <<2>>, "gnd")) }

TransientPayloads ==
    { SimulationPayload(circuit, [method |-> "transient", thevenin_port |-> << >>, sim |-> GoodSim]) :
          circuit \in TransientCircuits }

TransientInit ==
    /\ payload \in TransientPayloads
    /\ Fresh

\* The next request arrives at the server: a new call of run_simulation;
\* the metrics and the cache stay.
NextRequest ==
    /\ pc = "done"
    /\ metrics.simulate_calls < MaxRequests
    /\ payload' \in TransientPayloads
    /\ pc' = "run_simulation"
    /\ method' = Nothing
    /\ err' = NoError
    /\ response' = NoResponse
    /\ UNCHANGED <<SolveLocals, Results, thevenin, Shared, Outside>>

TransientNext ==
    \/ Route
    \/ SimulatePayload
    \/ Catch
    \/ NextRequest

TransientSpec == TransientInit /\ [][TransientNext]_vars

\* C28: when simulate_payload finds the topology of its request in the
\* cache, the cached system was built with the parameters of this request,
\* and the answer is the one a server with an empty cache gives.
C28_CacheHitKeepsAnswer ==
    [][(pc = "simulate_payload" /\ metrics'.simplify_hits > metrics.simplify_hits) =>
           /\ CacheGet(simplify_cache, TopoKey(payload)) = Simplified(payload)
           /\ pc' = "done" =>
                 response'.data = TransientSolution(Simplified(payload), payload.sim)]_vars

\* ---- The workspace: palette drops, deletions and project files ----

\* definition.prefix of the library's types.
Prefix ==
    [resistor |-> "R", capacitor |-> "C", inductor |-> "L", vsource_dc |-> "V",
     vsource_ac |-> "VAC", ground |-> "G", voltage_probe |-> "VP",
     current_probe |-> "IP"]

\* parameter.defaultValue of the library's parameters; the capacitor's and
\* the inductor's are fractions and are kept as written.
DefaultValue ==
    [resistor |-> [value |-> 1000], capacitor |-> [value |-> "1e-6"],
     inductor |-> [value |-> "1e-3"], vsource_dc |-> [dc |-> 5],
     vsource_ac |-> [amplitude |-> 5, frequency |-> 1000],
     ground |-> NoParameters, voltage_probe |-> NoParameters,
     current_probe |-> NoParameters]

\* The largest number of nodes on the workspace.
MaxParts == 3

\* The largest number an id ends with.
MaxNumber == 4

\* The letters an id may start with: the prefixes and one that is none.
IdStems == {Prefix[t] : t \in DOMAIN Prefix} \cup {"X"}

\* node.id.match(/(\d+)$/) and Number(match[1]): the digits an id ends
\* with, << >> when it ends with none.
TrailingNumber(id) ==
    IF \E stem \in IdStems, k \in 0..MaxNumber : id = stem \o ToString(k)
    THEN <<CHOOSE k \in 0..MaxNumber : \E stem \in IdStems : id = stem \o ToString(k)>>
    ELSE << >>

\* The loop of nextComponentIdFromNodes: the largest number among the ids
\* of the nodes of the type.
RECURSIVE MaxSuffixFrom(_, _, _, _)
MaxSuffixFrom(ns, type, i, maxSuffix) ==
    IF i > Len(ns) THEN maxSuffix
    ELSE IF ns[i].type # type THEN MaxSuffixFrom(ns, type, i + 1, maxSuffix)
    ELSE IF TrailingNumber(ns[i].id) = << >> THEN MaxSuffixFrom(ns, type, i + 1, maxSuffix)
    ELSE IF TrailingNumber(ns[i].id)[1] > maxSuffix
         THEN MaxSuffixFrom(ns, type, i + 1, TrailingNumber(ns[i].id)[1])
    ELSE MaxSuffixFrom(ns, type, i + 1, maxSuffix)

nextComponentIdFromNodes(ns, type) ==
    Prefix[type] \o ToString(MaxSuffixFrom(ns, type, 1, 0) + 1)

\* createNodeData(definition) and the node of handleDrop; the label is the id.
DroppedNode(id, type, position) ==
    [id |-> id, type |-> type, position |-> position, label |-> id,
     parameters |-> DefaultValue[type]]

\* validateProjectNode: id, type, position and data with label, type and
\* parameters are there.
validateProjectNode(raw) ==
    /\ {"id", "type", "position", "data"} \subseteq DOMAIN raw
    /\ {"x", "y"} \subseteq DOMAIN raw.position
    /\ {"label", "type", "parameters"} \subseteq DOMAIN raw.data

\* validateProjectEdge: id, source, target and two handles that are not empty.
validateProjectEdge(raw) ==
    /\ {"id", "source", "target", "sourceHandle", "targetHandle"} \subseteq DOMAIN raw
    /\ raw.sourceHandle # ""
    /\ raw.targetHandle # ""

\* The parameters of a loaded node: the keys of the definition, each with the
\* number of the file or else with the default of the library.
LoadedParameters(type, rawParams) ==
    [k \in {circuitComponentLibrary[type].parameters[i].key :
                i \in 1..Len(circuitComponentLibrary[type].parameters)} |->
        IF k \in DOMAIN rawParams THEN rawParams[k] ELSE DefaultValue[type][k]]

\* nodes.push of loadProjectFromObject: id, type, position, label, type and
\* parameters; nothing else of data is taken over.
LoadedNode(raw) ==
    [id |-> raw.id, type |-> raw.type,
     position |-> [x |-> raw.position.x, y |-> raw.position.y],
     label |-> raw.data.label,
     parameters |-> LoadedParameters(raw.type, raw.data.parameters)]

RECURSIVE LoadNodes(_, _, _)
LoadNodes(rawNodes, i, acc) ==
    IF i > Len(rawNodes) THEN acc
    ELSE IF ~validateProjectNode(rawNodes[i])
         THEN LoadNodes(rawNodes, i + 1,
                        [acc EXCEPT !.errors = Append(@, "illegal node data")])
    ELSE IF rawNodes[i].type \notin DOMAIN circuitComponentLibrary
         THEN LoadNodes(rawNodes, i + 1,
                        [acc EXCEPT !.errors = Append(@, "unknown node type")])
    ELSE LoadNodes(rawNodes, i + 1,
                   [acc EXCEPT !.nodes = Append(@, LoadedNode(rawNodes[i]))])

RECURSIVE LoadEdges(_, _, _)
LoadEdges(rawEdges, i, acc) ==
    IF i > Len(rawEdges) THEN acc
    ELSE IF ~validateProjectEdge(rawEdges[i])
         THEN LoadEdges(rawEdges, i + 1,
                        [acc EXCEPT !.errors = Append(@, "illegal edge data")])
    ELSE LoadEdges(rawEdges, i + 1,
                   [acc EXCEPT !.edges = Append(@,
                        [id |-> rawEdges[i].id, source |-> rawEdges[i].source,
                         target |-> rawEdges[i].target,
                         sourceHandle |-> rawEdges[i].sourceHandle,
                         targetHandle |-> rawEdges[i].targetHandle])])

LoadResult(acc) ==
    IF Len(acc.errors) > 0
    THEN [ok |-> FALSE, nodes |-> << >>, edges |-> << >>, errors |-> acc.errors]
    ELSE [ok |-> TRUE, nodes |-> acc.nodes, edges |-> acc.edges, errors |-> << >>]

loadProjectFromObject(file) ==
    IF Len(file.nodes) = 0
    THEN [ok |-> FALSE, nodes |-> << >>, edges |-> << >>, errors |-> <<"no nodes in the project">>]
    ELSE LoadResult(LoadEdges(file.edges, 1,
                LoadNodes(file.nodes, 1, [nodes |-> << >>, edges |-> << >>, errors |-> << >>])))

\* edge.sourceHandle ?? '' and edge.targetHandle ?? ''.
HandleOrEmpty(edge, k) == IF k \in DOMAIN edge THEN edge[k] ELSE ""

\* buildProjectSnapshot: a node goes out with its id, type, position and
\* all of its data; an edge with its id, its ends and its handles.
buildProjectSnapshot(ns, edges) ==
    [nodes |-> [i \in 1..Len(ns) |->
                   [id |-> ns[i].id, type |-> ns[i].type,
                    position |-> [x |-> ns[i].position.x, y |-> ns[i].position.y],
                    data |-> [k \in DOMAIN ns[i] \ {"id", "position"} |-> ns[i][k]]]],
     edges |-> [i \in 1..Len(edges) |->
                   [id |-> edges[i].id, source |-> edges[i].source,
                    target |-> edges[i].target,
                    sourceHandle |-> HandleOrEmpty(edges[i], "sourceHandle"),
                    targetHandle |-> HandleOrEmpty(edges[i], "targetHandle")]]]

\* A node as a project file holds it.
FileNode(id, type, parameters) ==
    [id |-> id, type |-> type, position |-> [x |-> 0, y |-> 0],
     data |-> [label |-> id, type |-> type, parameters |-> parameters]]

\* Project files the user may pick: a source with a resistor, a resistor
\* with a capacitor whose id was written as R2, a part of a type the library
\* does not have, and a wire without its target handle.
ProjectFiles ==
    { [nodes |-> << FileNode("V1", "vsource_dc", [dc |-> 5]),
                    FileNode("R1", "resistor", [value |-> 1000]) >>,
       edges |-> << CanvasEdge("e1", "V1", "pos", "R1", "p") >>],
      [nodes |-> << FileNode("R1", "resistor", [value |-> 1000]),
                    FileNode("R2", "capacitor", [value |-> 1]) >>,
       edges |-> << CanvasEdge("e1", "R1", "n", "R2", "p") >>],
      [nodes |-> << FileNode("D1", "diode", NoParameters) >>, edges |-> << >>],
      [nodes |-> << FileNode("R1", "resistor", NoParameters),
                    FileNode("G1", "ground", NoParameters) >>,
       edges |-> << CanvasEdge("e1", "R1", "n", "G1", "") >>] }

\* The states of the workspace between two of the user's actions.
WorkspacePcs == {"workspace", "dropped", "deleted", "exported", "imported"}

WorkspaceSettings == [tStop |-> 1, nSamples |-> 100]

\* screenToFlowPosition of the place of the drop.
DropPositions == {[x |-> 0, y |-> 0]}

\* The types of the palette the user drops.
Palette == {"resistor", "capacitor", "vsource_dc", "ground"}

WorkspaceInit ==
    /\ pc = "workspace"
    /\ payload = [components |-> << >>, nets |-> << >>]
    /\ Idle
    /\ canvas = [nodes |-> << >>, edges |-> << >>,
                 settings |-> WorkspaceSettings, method |-> Nothing]
    /\ built = NotBuilt
    /\ project = NoProject

\* What belongs to the server and to earlier requests.
ServerSide == <<payload, method, SolveLocals, Results, thevenin, err, response,
                Shared, earlier>>

\* handleDrop: the node of the dropped type gets the next id of its type and
\* is put behind the nodes of the canvas.
handleDrop ==
    /\ pc \in WorkspacePcs
    /\ Len(canvas.nodes) < MaxParts
    /\ \E type \in Palette, position \in DropPositions :
          /\ MaxSuffixFrom(canvas.nodes, type, 1, 0) < MaxNumber
          /\ canvas' = [canvas EXCEPT !.nodes =
                           Append(@, DroppedNode(nextComponentIdFromNodes(canvas.nodes, type),
                                                 type, position))]
    /\ pc' = "dropped"
    /\ UNCHANGED <<ServerSide, built, project>>

\* onNodesChange with a removal: the node and the edges at it go.
DeleteNode ==
    /\ pc \in WorkspacePcs
    /\ \E i \in 1..Len(canvas.nodes) :
          canvas' = [canvas EXCEPT
                        !.nodes = SubSeq(@, 1, i - 1) \o SubSeq(@, i + 1, Len(@)),
                        !.edges = SelectSeq(@, LAMBDA e :
                                      /\ e.source # canvas.nodes[i].id
                                      /\ e.target # canvas.nodes[i].id)]
    /\ pc' = "deleted"
    /\ UNCHANGED <<ServerSide, built, project>>

\* handleExportProject: the snapshot of the canvas is written to a file;
\* the export is offered when the canvas holds a node.
handleExportProject ==
    /\ pc \in WorkspacePcs
    /\ Len(canvas.nodes) > 0
    /\ project' = buildProjectSnapshot(canvas.nodes, canvas.edges)
    /\ pc' = "exported"
    /\ UNCHANGED <<ServerSide, canvas, built>>

\* setEdges of handleImportProject: every edge becomes a stepBridge.
StepBridge(edge) ==
    [k \in DOMAIN edge \cup {"type"} |-> IF k = "type" THEN "stepBridge" ELSE edge[k]]

\* handleImportProject: a file that loads replaces the nodes and the edges
\* of the canvas; one that does not leaves the canvas as it is.
handleImportProject ==
    /\ pc \in WorkspacePcs
    /\ \E file \in ProjectFiles \cup ({project} \ {NoProject}) :
       \E result \in {loadProjectFromObject(file)} :
          /\ project' = file
          /\ built' = [ok |-> result.ok, errors |-> result.errors, diagnostics |-> << >>]
          /\ canvas' = IF result.ok
                       THEN [canvas EXCEPT
                                !.nodes = result.nodes,
                                !.edges = [i \in 1..Len(result.edges) |->
                                              StepBridge(result.edges[i])]]
                       ELSE canvas
    /\ pc' = "imported"
    /\ UNCHANGED ServerSide

WorkspaceNext ==
    \/ handleDrop
    \/ DeleteNode
    \/ handleImportProject

WorkspaceSpec == WorkspaceInit /\ [][WorkspaceNext]_vars

\* The numbers of the ids of the nodes of a type before the last node.
NumbersBeforeLast(ns, type) ==
    {TrailingNumber(ns[i].id)[1] :
        i \in {j \in 1..(Len(ns) - 1) :
                  ns[j].type = type /\ TrailingNumber(ns[j].id) # << >>}}

\* C29: the node a drop has put on the canvas has an id no other node of
\* the canvas has, and its number is the one after the largest number among
\* the other nodes of its type.
C29_DroppedIdIsNew ==
    pc = "dropped" =>
        /\ \A i \in 1..(Len(canvas.nodes) - 1) :
               canvas.nodes[i].id # canvas.nodes[Len(canvas.nodes)].id
        /\ \E next \in 1..MaxNumber :
               /\ canvas.nodes[Len(canvas.nodes)].id =
                      Prefix[canvas.nodes[Len(canvas.nodes)].type] \o ToString(next)
               /\ \A k \in NumbersBeforeLast(canvas.nodes,
                                              canvas.nodes[Len(canvas.nodes)].type) :
                      k < next
               /\ next = 1 \/ next - 1 \in NumbersBeforeLast(canvas.nodes,
                                              canvas.nodes[Len(canvas.nodes)].type)

\* ---- Export and import of a project ----

\* handleRotationChange: the node holds the chosen rotation from then on.
Rotated(n, value) ==
    [k \in DOMAIN n \cup {"rotation"} |-> IF k = "rotation" THEN value ELSE n[k]]

\* addEdge of handleConnect: the wire from a source handle to a target handle.
ConnectedEdge(source, sourceHandle, target, targetHandle) ==
    StepBridge(CanvasEdge("xy-edge__" \o source \o sourceHandle \o "-" \o target \o targetHandle,
                          source, sourceHandle, target, targetHandle))

\* What may stand at each place of a canvas the user has drawn: a dropped
\* part as it is, or after a rotation was chosen for it.
DrawnChoices ==
    << { << >>, <<DroppedNode("V1", "vsource_dc", [x |-> 0, y |-> 0])>>,
                <<Rotated(DroppedNode("V1", "vsource_dc", [x |-> 0, y |-> 0]), 180)>> },
       { << >>, <<DroppedNode("R1", "resistor", [x |-> 0, y |-> 0])>>,
                <<Rotated(DroppedNode("R1", "resistor", [x |-> 0, y |-> 0]), 0)>>,
                <<Rotated(DroppedNode("R1", "resistor", [x |-> 0, y |-> 0]), 180)>> },
       { << >>, <<DroppedNode("G1", "ground", [x |-> 0, y |-> 0])>> } >>

DrawnWires ==
    << ConnectedEdge("V1", "pos", "R1", "p"),
       ConnectedEdge("R1", "n", "G1", "gnd"),
       ConnectedEdge("V1", "neg", "G1", "gnd") >>

\* The wires of a choice whose two ends stand on the canvas.
RECURSIVE WiresAmong(_, _, _)
WiresAmong(ns, S, i) ==
    IF i > Len(DrawnWires) THEN << >>
    ELSE IF /\ i \in S
            /\ \E j \in 1..Len(ns) : ns[j].id = DrawnWires[i].source
            /\ \E j \in 1..Len(ns) : ns[j].id = DrawnWires[i].target
         THEN <<DrawnWires[i]>> \o WiresAmong(ns, S, i + 1)
    ELSE WiresAmong(ns, S, i + 1)

DrawnCanvases ==
    { [nodes |-> v \o r \o g, edges |-> WiresAmong(v \o r \o g, S, 1),
       settings |-> WorkspaceSettings, method |-> Nothing] :
         v \in DrawnChoices[1], r \in DrawnChoices[2], g \in DrawnChoices[3],
         S \in SUBSET (1..Len(DrawnWires)) }

ProjectInit ==
    /\ pc = "workspace"
    /\ payload = [components |-> << >>, nets |-> << >>]
    /\ Idle
    /\ canvas \in DrawnCanvases
    /\ built = NotBuilt
    /\ project = NoProject

ProjectNext ==
    \/ handleExportProject
    \/ handleImportProject

ProjectSpec == ProjectInit /\ [][ProjectNext]_vars

\* A node after the import is the node before it: id, type, position,
\* label, parameter values and rotation.
SameNode(before, after) ==
    /\ after.id = before.id
    /\ after.type = before.type
    /\ after.position = before.position
    /\ after.label = before.label
    /\ after.parameters = before.parameters
    /\ RotationOf(after) = RotationOf(before)

SameEdge(before, after) ==
    /\ after.id = before.id
    /\ after.source = before.source
    /\ after.target = before.target
    /\ after.sourceHandle = before.sourceHandle
    /\ after.targetHandle = before.targetHandle

\* The import reads the snapshot of the canvas it replaces, whose nodes
\* have library types and whose edges carry both handles.
ReadsOwnSnapshot ==
    /\ pc' = "imported"
    /\ project' = buildProjectSnapshot(canvas.nodes, canvas.edges)
    /\ \A i \in 1..Len(canvas.nodes) : canvas.nodes[i].type \in DOMAIN circuitComponentLibrary
    /\ \A i \in 1..Len(canvas.edges) : HasHandles(canvas.edges[i])

\* C30: the import of the snapshot of a canvas succeeds and gives back the
\* nodes with their id, type, position, label, parameters and rotation and
\* the edges with their id, ends and handles, and the canvas builds the same
\* simulation payload as before.
C30_RoundTrip ==
    [][ReadsOwnSnapshot =>
           /\ built'.ok
           /\ Len(canvas'.nodes) = Len(canvas.nodes)
           /\ \A i \in 1..Len(canvas.nodes) : SameNode(canvas.nodes[i], canvas'.nodes[i])
           /\ Len(canvas'.edges) = Len(canvas.edges)
           /\ \A i \in 1..Len(canvas.edges) : SameEdge(canvas.edges[i], canvas'.edges[i])
           /\ buildSimulationPayload(canvas'.nodes, canvas'.edges,
                                     canvas'.settings, canvas'.method)
                 = buildSimulationPayload(canvas.nodes, canvas.edges,
                                          canvas.settings, canvas.method)]_vars

====
